---- MODULE Spec2Model ----
(***************************************************************************)
(* Refer-Grow compensation engine: binary placement of new members,        *)
(* distribution-rule administration, and the purchase transaction that     *)
(* distributes Business Volume (BV) up the ancestor chain.                 *)
(*                                                                         *)
(* Ids are positive naturals; 0 stands for null.  A collection is a        *)
(* sequence whose index is the document id, so index order is creation     *)
(* order (createdAt).                                                      *)
(***************************************************************************)
EXTENDS Integers, Sequences, FiniteSets, TLC

\* ---------------------------------------------------------------- bounds
MaxUsers == 5          \* cap on the number of User documents
NumProcs == 2          \* concurrent registration requests
MaxRules == 2          \* cap on the number of DistributionRule documents
NumAdmins == 2         \* concurrent rule administration requests
NumBuyers == 2         \* concurrent purchase requests
MaxPids == 2           \* cap on the Purchase ids handed out
MaxRetries == 1        \* cap on the retries of one transaction callback
MaxTicks == 1          \* cap on the advances of the clock
MaxRejected == 1       \* cap on the requests counted beyond a rate limit
MaxServices == 2       \* cap on the number of Service documents
NumCallers == 3        \* concurrent callers of connectToDatabase
MaxCalls == 2          \* cap on the calls of one caller

Procs == 1..NumProcs
Admins == 1..NumAdmins
BuyerProcs == 1..NumBuyers

\* ------------------------------------------------------- program constants
MAX_VISITS == 200000

\* A percentage is held as a numerator over PctDen (PctDen is 100 %); the
\* power of two keeps the halvings of the decay schedule exact, as they are
\* in binary floating point.
PctDen == 100 * 1024

VARIABLES
    users,        \* User collection
    reg,          \* registration requests in flight, per process
    rules,        \* DistributionRule collection
    adm,          \* rule administration requests in flight, per process
    regResp,      \* the latest answer of the register route
    backfills,    \* history: the backfill updates that matched a document
    admResp,      \* the latest answer of a rule route
    overlapped,   \* history: two rule requests were in flight at once
    superseded,   \* history: rules deactivated by the activation of another
    purchases,    \* Purchase collection (committed rows)
    incomes,      \* Income collection (committed rows)
    incomeLogs,   \* IncomeLog collection (committed rows)
    txn,          \* purchase requests and their transactions, per process
    nextPid,      \* next fresh Purchase id
    purResp,      \* the latest answer of the purchase route
    reader,       \* a GET /api/income request and what it has read
    usedRules,    \* history: ids of the rules a committed distribution used
    clock,        \* Date.now() in milliseconds
    ticks,        \* number of advances of the clock
    edgeLimit,    \* the rate-limit map of the edge middleware, per key
    edgeResp,     \* the latest request to the edge middleware and its answer
    routeLimit,   \* the rate-limit map of withRateLimit, per key
    handled,      \* history: requests passed to the handler in the window, per key
    routeResp,    \* the latest request to a rate-limited route and its answer
    services,     \* Service collection
    svcResp,      \* the latest answer of a service route
    treeResp,     \* the latest referral-tree request and its answer
    cached,       \* global.__mongooseConn: conn and promise
    promises,     \* the promises of mongoose.connect, in the order started
    dbCall        \* the callers of connectToDatabase

placementVars == <<users, reg, regResp, backfills>>
ruleVars == <<rules, adm, admResp, overlapped, superseded>>

ledgerVars ==
    <<purchases, incomes, incomeLogs, txn, nextPid, purResp, reader, usedRules>>

timeVars == <<clock, ticks>>
edgeVars == <<edgeLimit, edgeResp>>
routeVars == <<routeLimit, handled, routeResp>>
svcVars == <<services, svcResp>>
treeVars == <<treeResp>>
dbVars == <<cached, promises, dbCall>>
webVars == <<timeVars, edgeVars, routeVars, svcVars, treeVars, dbVars>>

vars == <<placementVars, ruleVars, ledgerVars, webVars>>

\* ------------------------------------------------------------ User model
Positions == {"left", "right"}

NewUser(parent, position, role) ==
    [parent |-> parent, position |-> position, role |-> role]

\* ids 1..n in creation order
IdSeq(n) == [i \in 1..n |-> i]

\* mutant: the index is missing
IndexAccepts_NoIndex(us, self, parent, position) == TRUE

\* Unique partial index { parent: 1, position: 1 } restricted to documents
\* with an ObjectId parent and position in {left, right}: TRUE when a write
\* giving document `self` the pair (parent, position) is accepted.
IndexAccepts(us, self, parent, position) ==
    (parent # 0 /\ position \in Positions) =>
        ~ \E i \in 1..Len(us) :
            i # self /\ us[i].parent = parent /\ us[i].position = position

\* ------------------------------------------------- findBinaryPlacement
\* mutant: the right slot is looked at before the left slot
pickMissingPosition_RightFirst(existing) ==
    IF "right" \notin existing THEN "right"
    ELSE IF "left" \notin existing THEN "left"
    ELSE "null"

pickMissingPosition(existing) ==
    IF "left" \notin existing THEN "left"
    ELSE IF "right" \notin existing THEN "right"
    ELSE "null"

\* mutant: the children are sorted by createdAt descending
ChildrenOf_NewestFirst(us, parentId) ==
    LET kids == SelectSeq(IdSeq(Len(us)), LAMBDA i : us[i].parent = parentId)
    IN [k \in 1..Len(kids) |-> kids[Len(kids) + 1 - k]]

\* UserModel.find({ parent }).sort({ createdAt: 1 })
ChildrenOf(us, parentId) ==
    SelectSeq(IdSeq(Len(us)), LAMBDA i : us[i].parent = parentId)

\* mutant: the child ids are not kept
ChildAt_None(us, children, pos) == 0

\* last child in creation order holding position pos, 0 when none
ChildAt(us, children, pos) ==
    LET hits == {k \in 1..Len(children) : us[children[k]].position = pos}
    IN IF hits = {} THEN 0
       ELSE children[CHOOSE k \in hits : \A j \in hits : j <= k]

IdleReg ==
    [pc |-> "idle", sponsor |-> 0, queue |-> <<>>, visited |-> {},
     cur |-> 0, positions |-> {}, leftChildId |-> 0, rightChildId |-> 0,
     unpositioned |-> <<>>, parentId |-> 0, position |-> "null",
     startLen |-> 0]

\* status "dup" is the 400 answered for a duplicate key on (parent, position)
RegAnswer(status, parentId, position) ==
    [status |-> status, parentId |-> parentId, position |-> position]

InFlight == {p \in Procs : reg[p].pc # "idle"}

\* mutant: the right child is enqueued before the left child
PickOrEnqueue_RightFirst(r) ==
    LET missing == pickMissingPosition(r.positions)
    IN IF missing # "null"
       THEN [r EXCEPT !.pc = "create", !.parentId = r.cur,
                      !.position = missing]
       ELSE [r EXCEPT !.pc = "search",
                      !.queue = r.queue
                          \o (IF r.rightChildId # 0 THEN <<r.rightChildId>> ELSE <<>>)
                          \o (IF r.leftChildId # 0 THEN <<r.leftChildId>> ELSE <<>>)
                          \o r.unpositioned]

\* lines 139-152 of the search loop: return the missing slot of the current
\* node or enqueue its children and go on with the next node.
PickOrEnqueue(r) ==
    LET missing == pickMissingPosition(r.positions)
    IN IF missing # "null"
       THEN [r EXCEPT !.pc = "create", !.parentId = r.cur,
                      !.position = missing]
       ELSE [r EXCEPT !.pc = "search",
                      !.queue = r.queue
                          \o (IF r.leftChildId # 0 THEN <<r.leftChildId>> ELSE <<>>)
                          \o (IF r.rightChildId # 0 THEN <<r.rightChildId>> ELSE <<>>)
                          \o r.unpositioned]

\* the second backfill decision (line 128), then lines 139-152
AfterLeft(r) ==
    IF r.rightChildId = 0 /\ r.unpositioned # <<>>
    THEN [r EXCEPT !.pc = "bfRight"]
    ELSE PickOrEnqueue(r)

\* the first backfill decision (line 117)
AfterFind(r) ==
    IF r.leftChildId = 0 /\ r.unpositioned # <<>>
    THEN [r EXCEPT !.pc = "bfLeft"]
    ELSE AfterLeft(r)

\* the search throws; the register handler's catch answers 400
SearchFailed(p) ==
    /\ reg' = [reg EXCEPT ![p] = IdleReg]
    /\ regResp' = RegAnswer("400", 0, "null")

\* POST /api/auth/register up to the start of the placement search.
RegisterStart(p) ==
    /\ reg[p].pc = "idle"
    /\ Len(users) + Cardinality(InFlight) < MaxUsers
    /\ \E emailInUse \in BOOLEAN, code \in 0..(Len(users) + 1) :
        IF emailInUse
        THEN UNCHANGED reg /\ regResp' = RegAnswer("409", 0, "null")
        ELSE IF code = 0
        THEN \* no referral code: a root
             /\ reg' = [reg EXCEPT ![p] = [IdleReg EXCEPT !.pc = "create"]]
             /\ UNCHANGED regResp
        ELSE IF code > Len(users)
        THEN \* referral code of no user
             UNCHANGED reg /\ regResp' = RegAnswer("400", 0, "null")
        ELSE /\ reg' = [reg EXCEPT ![p] =
                        [IdleReg EXCEPT !.pc = "search", !.sponsor = code,
                                        !.queue = <<code>>,
                                        !.startLen = Len(users)]]
             /\ UNCHANGED regResp
    /\ UNCHANGED <<users, backfills, ruleVars, ledgerVars, webVars>>

\* mutant: the visited set is never consulted
AlreadyVisited_Never(r, id) == FALSE

\* visited.has(key)
AlreadyVisited(r, id) == id \in r.visited

\* One iteration of the while loop up to the children query.
SearchStep(p) ==
    LET r == reg[p] IN
    /\ r.pc = "search"
    /\ UNCHANGED <<users, backfills, ruleVars, ledgerVars, webVars>>
    /\ IF r.queue = <<>>
       THEN SearchFailed(p)
       ELSE LET parentId == Head(r.queue)
                rest == Tail(r.queue)
            IN IF AlreadyVisited(r, parentId)
               THEN reg' = [reg EXCEPT ![p].queue = rest] /\ UNCHANGED regResp
               ELSE IF Cardinality(r.visited \cup {parentId}) > MAX_VISITS
               THEN SearchFailed(p)
               ELSE LET children == ChildrenOf(users, parentId)
                        found == [r EXCEPT
                            !.queue = rest,
                            !.visited = r.visited \cup {parentId},
                            !.cur = parentId,
                            !.positions =
                                {users[children[k]].position :
                                    k \in 1..Len(children)} \ {"null"},
                            !.leftChildId = ChildAt(users, children, "left"),
                            !.rightChildId = ChildAt(users, children, "right"),
                            !.unpositioned =
                                SelectSeq(children,
                                    LAMBDA c : users[c].position = "null")]
                    IN /\ reg' = [reg EXCEPT ![p] = AfterFind(found)]
                       /\ UNCHANGED regResp

\* mutant: the update addresses the parent's first child, not the target
Backfilled_FirstChild(us, target, pos) ==
    [us EXCEPT ![Head(ChildrenOf(us, us[target].parent))].position = pos]

\* the store after { $set: { position: pos } } on the document target
Backfilled(us, target, pos) == [us EXCEPT ![target].position = pos]

\* mutant: the filter of the update names the document only
BackfillMatches_IdOnly(us, target) == TRUE

\* the filter { _id: target, position: null } of the backfill update
BackfillMatches(us, target) == us[target].position = "null"

\* updateOne({ _id: target, position: null }, { $set: { position: pos } })
\* followed by the bookkeeping of the search; a write the unique index
\* rejects throws out of the search.
Backfill(p, pos) ==
    LET r == reg[p]
        target == Head(r.unpositioned)
        matches == BackfillMatches(users, target)
        taken == [r EXCEPT !.unpositioned = Tail(r.unpositioned),
                           !.positions = r.positions \cup {pos}]
    IN
    /\ r.pc = (IF pos = "left" THEN "bfLeft" ELSE "bfRight")
    /\ UNCHANGED <<ruleVars, ledgerVars, webVars>>
    /\ IF matches /\ ~IndexAccepts(users, target, users[target].parent, pos)
       THEN /\ SearchFailed(p)
            /\ UNCHANGED <<users, backfills>>
       ELSE /\ users' = IF matches
                        THEN Backfilled(users, target, pos)
                        ELSE users
            /\ backfills' = IF matches
                            THEN Append(backfills, [target |-> target,
                                                    position |-> pos])
                            ELSE backfills
            /\ reg' = [reg EXCEPT ![p] =
                        IF pos = "left"
                        THEN AfterLeft([taken EXCEPT !.leftChildId = target])
                        ELSE PickOrEnqueue([taken EXCEPT !.rightChildId = target])]
            /\ UNCHANGED regResp

BackfillLeft(p) == Backfill(p, "left")

BackfillRight(p) == Backfill(p, "right")

\* mutant: the member is created without its position
CreatedMember_NoPosition(r) == NewUser(r.parentId, "null", "user")

\* the document of UserModel.create({ ..., role: "user", parent: parentId,
\* position })
CreatedMember(r) == NewUser(r.parentId, r.position, "user")

\* UserModel.create({ ..., parent: parentId, position }) and the answer.
\* dupKey: the email or referral-code unique index rejects the insert.
CreateUser(p) ==
    LET r == reg[p] IN
    /\ r.pc = "create"
    /\ UNCHANGED <<backfills, ruleVars, ledgerVars, webVars>>
    /\ \E dupKey \in BOOLEAN :
        IF dupKey \/ ~IndexAccepts(users, 0, r.parentId, r.position)
        THEN /\ UNCHANGED users
             /\ reg' = [reg EXCEPT ![p] = IdleReg]
             /\ regResp' = RegAnswer(IF dupKey THEN "400" ELSE "dup",
                                     r.parentId, r.position)
        ELSE /\ users' = Append(users, CreatedMember(r))
             /\ reg' = [reg EXCEPT ![p] = IdleReg]
             /\ regResp' = RegAnswer("201", r.parentId, r.position)

\* ------------------------------------------------ POST /api/admin/setup
\* UserModel.exists({ role: "admin" })
AdminExists(us) == \E i \in 1..Len(us) : us[i].role = "admin"

\* the document of UserModel.create({ ..., role: "admin", parent: null })
CreatedAdmin == NewUser(0, "null", "admin")

\* the handler up to the start of password hashing: the secret and the two
\* exists queries
SetupStart(p) ==
    /\ reg[p].pc = "idle"
    /\ Len(users) + Cardinality(InFlight) < MaxUsers
    /\ UNCHANGED <<users, backfills, ruleVars, ledgerVars, webVars>>
    /\ \E secret \in {"unset", "wrong", "right"}, emailInUse \in BOOLEAN :
        IF secret = "unset"
        THEN UNCHANGED reg /\ regResp' = RegAnswer("setup500", 0, "null")
        ELSE IF secret = "wrong"
        THEN UNCHANGED reg /\ regResp' = RegAnswer("setup403", 0, "null")
        ELSE IF AdminExists(users) \/ emailInUse
        THEN UNCHANGED reg /\ regResp' = RegAnswer("setup409", 0, "null")
        ELSE /\ reg' = [reg EXCEPT ![p] = [IdleReg EXCEPT !.pc = "setup"]]
             /\ UNCHANGED regResp

\* UserModel.create of the admin and the answer
SetupCreate(p) ==
    /\ reg[p].pc = "setup"
    /\ UNCHANGED <<backfills, ruleVars, ledgerVars, webVars>>
    /\ reg' = [reg EXCEPT ![p] = IdleReg]
    /\ \E dupKey \in BOOLEAN :
        IF dupKey
        THEN UNCHANGED users /\ regResp' = RegAnswer("setup400", 0, "null")
        ELSE /\ users' = Append(users, CreatedAdmin)
             /\ regResp' = RegAnswer("setup200", 0, "null")


\* ------------------------------------------------ DistributionRule routes
NewRule(basePercentage, decayEnabled, isActive) ==
    [basePercentage |-> basePercentage, decayEnabled |-> decayEnabled,
     isActive |-> isActive, deleted |-> FALSE]

\* the place of a removed document (ids are never reused)
DeletedRule ==
    [basePercentage |-> 0, decayEnabled |-> FALSE, isActive |-> FALSE,
     deleted |-> TRUE]

LiveRuleIds(rs) == {i \in 1..Len(rs) : ~rs[i].deleted}

ActiveRuleIds(rs) == {i \in LiveRuleIds(rs) : rs[i].isActive}

\* mutant: the activation leaves the other rules as they are
DeactivateAll_Noop(rs) == rs

\* updateMany({ isActive: true }, { $set: { isActive: false } })
DeactivateAll(rs) == [i \in 1..Len(rs) |-> [rs[i] EXCEPT !.isActive = FALSE]]

\* an optional field that the body leaves out
Absent == "absent"
NoNumber == 0 - 1

Flags == {"true", "false"}

\* zod: v > 1 is read as a percent and divided by 100
NormalizePercentage(v) == IF v > PctDen THEN v \div 100 ELSE v

ValidPercentage(v) == v >= 0 /\ v <= PctDen

\* the body as the schema's transform hands it to the handler
Parsed(body) ==
    [body EXCEPT !.basePercentage =
        IF @ = NoNumber THEN @ ELSE NormalizePercentage(@)]

\* request values of basePercentage: 0.10, 10 (percent) and 200 (rejected)
RawPercentages == {PctDen \div 10, 10 * PctDen, 200 * PctDen}


\* bodies of POST /api/admin/rules: basePercentage and decayEnabled required
PostBodies ==
    [basePercentage : RawPercentages, decayEnabled : Flags,
     isActive : Flags \cup {Absent}]

\* bodies of PUT /api/admin/rules/:id: every field optional, one required
PutBodies ==
    [basePercentage : RawPercentages \cup {NoNumber},
     decayEnabled : Flags \cup {Absent},
     isActive : Flags \cup {Absent}]
    \ {[basePercentage |-> NoNumber, decayEnabled |-> Absent, isActive |-> Absent]}

NoBody == [basePercentage |-> NoNumber, decayEnabled |-> Absent, isActive |-> Absent]

IdleAdm == [pc |-> "idle", body |-> NoBody, id |-> 0]

Answer(a, op, status) ==
    /\ adm' = [adm EXCEPT ![a] = IdleAdm]
    /\ admResp' = [op |-> op, status |-> status]

AdmInFlight == {a \in Admins : adm[a].pc # "idle"}

\* a request that awaits between two store operations starts
StartTwoStep(a, op, body, id) ==
    /\ rules' = DeactivateAll(rules)
    /\ adm' = [adm EXCEPT ![a] =
            [pc |-> op, body |-> body, id |-> id]]
    /\ UNCHANGED admResp
    /\ overlapped' = (overlapped \/ AdmInFlight # {})
    /\ superseded' = superseded \cup (ActiveRuleIds(rules) \ {id})

\* findByIdAndUpdate(id, body): the fields present in the body are set
ApplyUpdate(rule, body) ==
    [rule EXCEPT
        !.basePercentage = IF body.basePercentage = NoNumber THEN @
                           ELSE body.basePercentage,
        !.decayEnabled = IF body.decayEnabled = Absent THEN @
                         ELSE body.decayEnabled = "true",
        !.isActive = IF body.isActive = Absent THEN @ ELSE body.isActive = "true"]

\* POST /api/admin/rules up to its first store operation
RulePost(a) ==
    /\ adm[a].pc = "idle"
    /\ Len(rules) + Cardinality(AdmInFlight) < MaxRules
    /\ UNCHANGED <<placementVars, webVars, ledgerVars>>
    /\ \/ Answer(a, "post", "403") /\ UNCHANGED <<rules, overlapped, superseded>>
       \/ \E body \in PostBodies :
        LET v == NormalizePercentage(body.basePercentage)
            isActive == IF body.isActive = Absent THEN TRUE
                        ELSE body.isActive = "true"
        IN IF ~ValidPercentage(v)
           THEN Answer(a, "post", "400") /\ UNCHANGED <<rules, overlapped, superseded>>
           ELSE IF isActive
           THEN StartTwoStep(a, "post", Parsed(body), 0)
           ELSE /\ rules' = Append(rules, NewRule(v, body.decayEnabled = "true", FALSE))
                /\ Answer(a, "post", "201")
                /\ UNCHANGED <<overlapped, superseded>>

\* DistributionRuleModel.create of an active rule, after the updateMany
RulePostCreate(a) ==
    /\ adm[a].pc = "post"
    /\ UNCHANGED <<placementVars, webVars, ledgerVars, overlapped, superseded>>
    /\ rules' = Append(rules,
            NewRule(adm[a].body.basePercentage,
                    adm[a].body.decayEnabled = "true", TRUE))
    /\ Answer(a, "post", "201")

\* the findByIdAndUpdate of PUT and its answer
UpdateById(a, id, body) ==
    IF id \in LiveRuleIds(rules)
    THEN /\ rules' = [rules EXCEPT ![id] = ApplyUpdate(rules[id], body)]
         /\ Answer(a, "put", "200")
    ELSE /\ UNCHANGED rules
         /\ Answer(a, "put", "404")

\* PUT /api/admin/rules/:id up to its first store operation
RulePut(a) ==
    /\ adm[a].pc = "idle"
    /\ UNCHANGED <<placementVars, webVars, ledgerVars>>
    /\ \/ Answer(a, "put", "403") /\ UNCHANGED <<rules, overlapped, superseded>>
       \/ \E body \in PutBodies, id \in 1..(Len(rules) + 1) :
        IF body.basePercentage # NoNumber
            /\ ~ValidPercentage(NormalizePercentage(body.basePercentage))
        THEN Answer(a, "put", "400") /\ UNCHANGED <<rules, overlapped, superseded>>
        ELSE IF body.isActive = "true"
        THEN StartTwoStep(a, "put", Parsed(body), id)
        ELSE UpdateById(a, id, Parsed(body))
             /\ UNCHANGED <<overlapped, superseded>>

\* DistributionRuleModel.findByIdAndUpdate, after the updateMany
RulePutUpdate(a) ==
    /\ adm[a].pc = "put"
    /\ UNCHANGED <<placementVars, webVars, ledgerVars, overlapped, superseded>>
    /\ UpdateById(a, adm[a].id, adm[a].body)

\* DELETE /api/admin/rules/:id
RuleDelete(a) ==
    /\ adm[a].pc = "idle"
    /\ UNCHANGED <<placementVars, webVars, ledgerVars, overlapped>>
    /\ \/ Answer(a, "delete", "403") /\ UNCHANGED <<rules, superseded>>
       \/ \E id \in 1..(Len(rules) + 1) :
        IF id \in LiveRuleIds(rules)
        THEN /\ rules' = [rules EXCEPT ![id] = DeletedRule]
             /\ superseded' = superseded \ {id}
             /\ Answer(a, "delete", "200")
        ELSE /\ UNCHANGED <<rules, superseded>>
             /\ Answer(a, "delete", "404")

InitRules ==
    /\ rules = <<>>
    /\ adm = [a \in Admins |-> IdleAdm]
    /\ admResp = [op |-> "none", status |-> "none"]
    /\ overlapped = FALSE
    /\ superseded = {}

NextRules ==
    \E a \in Admins :
        \/ RulePost(a)
        \/ RulePostCreate(a)
        \/ RulePut(a)
        \/ RulePutUpdate(a)
        \/ RuleDelete(a)

\* ------------------------------------------- POST /api/purchases (ledger)
\* the members that buy and the BV of the services they buy
Buyers == {7, 8}
BVs == {1, 100}

\* the member whose income list is read: an ancestor of both buyers
Readers == {5}

\* currency minor units per unit of BV income (cents)
MinorUnits == 100

NoRule ==
    [found |-> FALSE, id |-> 0, basePercentage |-> 0, decayEnabled |-> FALSE]

\* the rule a distribution resolves: the newest rule with isActive = true
ResolveActiveRule(rs) ==
    LET act == ActiveRuleIds(rs)
    IN IF act = {} THEN NoRule
       ELSE LET i == CHOOSE k \in act : \A j \in act : j <= k
            IN [found |-> TRUE, id |-> i,
                basePercentage |-> rs[i].basePercentage,
                decayEnabled |-> rs[i].decayEnabled]

\* mutant: the percentage is halved at every level also without decay
NextPercentage_AlwaysHalve(rule, pct) == pct \div 2

\* the percentage of the level above a level paid at pct
NextPercentage(rule, pct) == IF rule.decayEnabled THEN pct \div 2 ELSE pct

\* mutant: the first level is already paid at half the base percentage
FirstPercentage_Halved(rule) == rule.basePercentage \div 2

\* the percentage of level 1
FirstPercentage(rule) == rule.basePercentage

\* amounts are numerators over PctDen, as percentages are
LevelAmount(bv, pct) == bv * pct

\* the amount is below half a minor unit
RoundsToZero(amount) == 2 * MinorUnits * amount < PctDen

\* mutant: the Purchase row is created outside the session
PurchaseRolledBack_Kept(rows) == rows

\* what an aborted transaction leaves of the Purchase row created with
\* { session }: nothing
PurchaseRolledBack(rows) == <<>>

\* what an aborted transaction leaves of the rows the distribution wrote
\* through the session it was handed: nothing
LedgerRolledBack(rows) == <<>>

\* mutant: the abort is a compensation that removes as many of the newest
\* rows of the collection as the transaction had written
IncomesAfterAbort_Compensated(store, rows) ==
    SubSeq(store, 1, Len(store) - Len(rows))

\* the Income collection after an abort: the committed rows as they were
IncomesAfterAbort(store, rows) == store \o LedgerRolledBack(rows)

\* mutant: a commit whose acknowledgement was lost is applied a second time
Committed_Twice(store, rows) == store \o rows \o rows

\* a commit publishes the rows written through the session, once
Committed(store, rows) == store \o rows

\* mutant: the finalization writes the placeholder back
FinalizedBv_Placeholder(bv) == 0

\* the value Purchase.updateOne sets: distribution.bv
FinalizedBv(bv) == bv

IdleTxn ==
    [pc |-> "idle", user |-> 0, bv |-> 0, rule |-> NoRule, attempts |-> 0,
     bPurchases |-> <<>>, bIncomes |-> <<>>, bLogs |-> <<>>,
     level |-> 0, cur |-> 0, pct |-> 0]

PurAnswer(status, t) ==
    [status |-> status, user |-> t.user,
     purchaseId |-> IF t.bPurchases = <<>> THEN 0 ELSE t.bPurchases[1].id,
     logsCreated |-> Len(t.bLogs), levelsPaid |-> t.level - 1]

\* mutant: the error is swallowed inside the callback, so withTransaction
\* commits what was written up to the throw
Abort_Swallowed(p, status) ==
    /\ purchases' = purchases \o txn[p].bPurchases
    /\ incomes' = incomes \o txn[p].bIncomes
    /\ incomeLogs' = incomeLogs \o txn[p].bLogs
    /\ txn' = [txn EXCEPT ![p] = IdleTxn]
    /\ purResp' = PurAnswer(status, txn[p])

\* the callback threw for good: withTransaction aborts, the error surfaces
Abort(p, status) ==
    /\ purchases' = purchases \o PurchaseRolledBack(txn[p].bPurchases)
    /\ incomes' = IncomesAfterAbort(incomes, txn[p].bIncomes)
    /\ incomeLogs' = incomeLogs \o LedgerRolledBack(txn[p].bLogs)
    /\ txn' = [txn EXCEPT ![p] = IdleTxn]
    /\ purResp' = PurAnswer(status, txn[p])

\* mutant: the walk also ends after a fixed number of levels
WalkDone_DepthLimit(t) ==
    t.cur = 0 \/ RoundsToZero(LevelAmount(t.bv, t.pct)) \/ t.level > 4

\* the walk ends at a root or where the amount rounds to zero
WalkDone(t) == t.cur = 0 \/ RoundsToZero(LevelAmount(t.bv, t.pct))

AfterCredit(t) == IF WalkDone(t) THEN [t EXCEPT !.pc = "finalize"] ELSE t

\* the handler is entered: authenticated user and validated body
PurchaseStart(p) ==
    /\ txn[p].pc = "idle"
    /\ nextPid <= MaxPids
    /\ \E u \in Buyers, bv \in BVs :
        txn' = [txn EXCEPT ![p] = [IdleTxn EXCEPT !.pc = "begin", !.user = u,
                                                  !.bv = bv]]
    /\ UNCHANGED <<placementVars, webVars, ruleVars, purchases, incomes, incomeLogs,
                   nextPid, purResp, reader, usedRules>>

\* the callback starts (again): PurchaseModel.create([{ user, service,
\* bv: 0 }], { session }); the transaction reads from the snapshot taken here
TxnCreate(p) ==
    /\ txn[p].pc = "begin"
    /\ nextPid <= MaxPids
    /\ UNCHANGED <<placementVars, webVars, ruleVars, reader, usedRules>>
    /\ \E fails \in BOOLEAN :
        IF fails
        THEN Abort(p, "failed") /\ UNCHANGED nextPid
        ELSE /\ txn' = [txn EXCEPT ![p] =
                    [@ EXCEPT !.pc = "created",
                              !.rule = ResolveActiveRule(rules),
                              !.bPurchases =
                                  <<[id |-> nextPid, user |-> txn[p].user, bv |-> 0]>>,
                              !.level = 1]]
             /\ nextPid' = nextPid + 1
             /\ UNCHANGED <<purchases, incomes, incomeLogs, purResp>>

\* distributeBusinessVolumeWithSession up to its first ledger write
DistributeStart(p) ==
    LET t == txn[p] IN
    /\ t.pc = "created"
    /\ UNCHANGED <<placementVars, webVars, ruleVars, nextPid, reader, usedRules>>
    /\ IF ~t.rule.found
       THEN Abort(p, "NoActiveRule")
       ELSE /\ txn' = [txn EXCEPT ![p] =
                    AfterCredit([t EXCEPT !.pc = "walk",
                                          !.cur = users[t.user].parent,
                                          !.pct = FirstPercentage(t.rule)])]
            /\ UNCHANGED <<purchases, incomes, incomeLogs, purResp>>

\* the Income row of the level the walk of t stands at
IncomeRow(t) ==
    [toUser |-> t.cur, fromUser |-> t.user,
     purchase |-> t.bPurchases[1].id, level |-> t.level,
     amount |-> LevelAmount(t.bv, t.pct), percentage |-> t.pct]

\* mutant: the log carries the amount of the base percentage
LogRow_BaseAmount(t) ==
    [purchase |-> t.bPurchases[1].id, toUser |-> t.cur,
     level |-> t.level,
     incomeAmount |-> LevelAmount(t.bv, t.rule.basePercentage)]

\* the IncomeLog row of the same credit
LogRow(t) ==
    [purchase |-> t.bPurchases[1].id, toUser |-> t.cur,
     level |-> t.level, incomeAmount |-> LevelAmount(t.bv, t.pct)]

\* one level of the walk: the Income row and the IncomeLog row of ancestor
\* cur, then one parent hop
CreditLevel(p) ==
    LET t == txn[p]
        income == IncomeRow(t)
        log == LogRow(t)
    IN
    /\ t.pc = "walk"
    /\ UNCHANGED <<placementVars, webVars, ruleVars, nextPid, reader, usedRules>>
    /\ \E fails \in {"none", "income", "log"} :
        IF fails = "income"
        THEN Abort(p, "failed")
        ELSE IF fails = "log"
        THEN Abort(p, "failed")
        ELSE /\ txn' = [txn EXCEPT ![p] =
                    AfterCredit([t EXCEPT
                        !.bIncomes = Append(@, income),
                        !.bLogs = Append(@, log),
                        !.level = @ + 1,
                        !.cur = users[t.cur].parent,
                        !.pct = NextPercentage(t.rule, @)])]
             /\ UNCHANGED <<purchases, incomes, incomeLogs, purResp>>

\* PurchaseModel.updateOne({ _id }, { $set: { bv: distribution.bv } },
\* { session })
Finalize(p) ==
    LET t == txn[p] IN
    /\ t.pc = "finalize"
    /\ UNCHANGED <<placementVars, webVars, ruleVars, nextPid, reader, usedRules>>
    /\ \E fails \in BOOLEAN :
        IF fails
        THEN Abort(p, "failed")
        ELSE /\ txn' = [txn EXCEPT ![p] =
                    [t EXCEPT !.pc = "commit",
                              !.bPurchases[1].bv = FinalizedBv(t.bv)]]
             /\ UNCHANGED <<purchases, incomes, incomeLogs, purResp>>

\* the callback returned: withTransaction commits and the handler answers 201
Commit(p) ==
    LET t == txn[p] IN
    /\ t.pc = "commit"
    /\ UNCHANGED <<placementVars, webVars, ruleVars, nextPid, reader>>
    /\ \E fails \in BOOLEAN :
        IF fails
        THEN Abort(p, "failed") /\ UNCHANGED usedRules
        ELSE /\ purchases' = Committed(purchases, t.bPurchases)
             /\ incomes' = Committed(incomes, t.bIncomes)
             /\ incomeLogs' = Committed(incomeLogs, t.bLogs)
             /\ txn' = [txn EXCEPT ![p] = IdleTxn]
             /\ purResp' = PurAnswer("201", t)
             /\ usedRules' = usedRules \cup {t.rule.id}

\* a TransientTransactionError: withTransaction aborts the attempt and runs
\* the callback again
Transient(p) ==
    LET t == txn[p] IN
    /\ t.pc \in {"created", "walk", "finalize", "commit"}
    /\ t.attempts < MaxRetries
    /\ purchases' = purchases \o PurchaseRolledBack(t.bPurchases)
    /\ incomes' = IncomesAfterAbort(incomes, t.bIncomes)
    /\ incomeLogs' = incomeLogs \o LedgerRolledBack(t.bLogs)
    /\ txn' = [txn EXCEPT ![p] =
            [IdleTxn EXCEPT !.pc = "begin", !.user = t.user, !.bv = t.bv,
                            !.attempts = t.attempts + 1]]
    /\ UNCHANGED <<placementVars, webVars, ruleVars, nextPid, purResp, reader,
                   usedRules>>

\* ------------------------------------------------------ GET /api/income
IdleReader == [pc |-> "idle", user |-> 0, rows |-> <<>>, bvs |-> <<>>,
               during |-> FALSE]

\* some transaction holds uncommitted ledger rows
Uncommitted == \E p \in BuyerProcs : txn[p].bIncomes # <<>>

\* IncomeModel.find({ toUser })
ReadIncomes ==
    /\ reader.pc \in {"idle", "done"}
    /\ \E u \in Readers :
        reader' = [pc |-> "populate", user |-> u,
                   rows |-> SelectSeq(incomes, LAMBDA r : r.toUser = u),
                   bvs |-> <<>>, during |-> Uncommitted]
    /\ UNCHANGED <<placementVars, webVars, ruleVars, purchases, incomes, incomeLogs,
                   txn, nextPid, purResp, usedRules>>

\* admin dashboard: IncomeLogModel.aggregate $sum of incomeAmount
RECURSIVE totalIncomeDistributed(_)
totalIncomeDistributed(logs) ==
    IF logs = <<>> THEN 0
    ELSE Head(logs).incomeAmount + totalIncomeDistributed(Tail(logs))

\* bv of the Purchase document with this id, -1 when there is none
PurchaseBv(id) ==
    LET hits == {k \in 1..Len(purchases) : purchases[k].id = id}
    IN IF hits = {} THEN 0 - 1 ELSE purchases[CHOOSE k \in hits : TRUE].bv

\* .populate("purchase"): the purchases of the rows read
ReadPopulate ==
    /\ reader.pc = "populate"
    /\ reader' = [reader EXCEPT
            !.pc = "done",
            !.bvs = [k \in 1..Len(reader.rows) |->
                        PurchaseBv(reader.rows[k].purchase)]]
    /\ UNCHANGED <<placementVars, webVars, ruleVars, purchases, incomes, incomeLogs,
                   txn, nextPid, purResp, usedRules>>

InitLedger ==
    /\ purchases = <<>>
    /\ incomes = <<>>
    /\ incomeLogs = <<>>
    /\ txn = [p \in BuyerProcs |-> IdleTxn]
    /\ nextPid = 1
    /\ purResp = PurAnswer("none", IdleTxn)
    /\ reader = IdleReader
    /\ usedRules = {}

NextLedger ==
    \E p \in BuyerProcs :
        \/ PurchaseStart(p)
        \/ TxnCreate(p)
        \/ DistributeStart(p)
        \/ CreditLevel(p)
        \/ Finalize(p)
        \/ Commit(p)
        \/ Transient(p)

NextIncomeReads ==
    \/ NextLedger
    \/ ReadIncomes
    \/ ReadPopulate

\* ------------------------------------------------------- rate limiting
\* the advances of Date.now() between two requests, in milliseconds
ClockSteps == {1000, 60000}

Tick ==
    /\ ticks < MaxTicks
    /\ \E d \in ClockSteps : clock' = clock + d
    /\ ticks' = ticks + 1
    /\ UNCHANGED <<placementVars, ruleVars, ledgerVars, edgeVars, routeVars,
                   svcVars, treeVars, dbVars>>

\* store.get(key) of a key that was never set
NoEntry == [count |-> 0, resetAt |-> 0]

\* the negation of (!entry || entry.resetAt <= now)
WindowOpen(entry, now) == entry.count # 0 /\ entry.resetAt > now

\* the entry the limiter stores for a request at time now
Counted(entry, now, windowMs) ==
    IF WindowOpen(entry, now)
    THEN [entry EXCEPT !.count = entry.count + 1]
    ELSE [count |-> 1, resetAt |-> now + windowMs]

\* mutant: one request more than max is let through
Limited_OffByOne(entry, now, windowMs, max) ==
    WindowOpen(entry, now) /\ Counted(entry, now, windowMs).count > max + 1

\* entry.count > max after the increment, in a window that is open
Limited(entry, now, windowMs, max) ==
    WindowOpen(entry, now) /\ Counted(entry, now, windowMs).count > max

\* Math.max(1, Math.ceil((entry.resetAt - now) / 1000))
RetryAfterSeconds(entry, now) ==
    LET ceil == (entry.resetAt - now + 999) \div 1000
    IN IF ceil > 1 THEN ceil ELSE 1

\* ------------------------------------------------------- edge middleware
EdgeWindowMs == 60000
EdgeMaxAuth == 20
EdgeMaxApi == 120

\* request paths as their segments: /api/admin/setup, /api/admin/rules,
\* /api/admin/setup/x, /api/admin and /api/purchases
Paths ==
    { <<"api", "admin", "setup">>, <<"api", "admin", "rules">>,
      <<"api", "admin", "setup", "x">>, <<"api", "admin">>,
      <<"api", "purchases">> }

EdgeIps == {"10.0.0.1"}

EdgeKeys == {"auth", "api"} \X EdgeIps

\* pathname.startsWith(prefix + "/")
StartsWith(path, prefix) ==
    Len(path) > Len(prefix) /\ SubSeq(path, 1, Len(prefix)) = prefix

\* the token cookie: absent, or a JWT with a signature that verifies or not
\* and a role claim
NoToken == [present |-> FALSE, signed |-> FALSE, role |-> "none"]

Tokens ==
    {NoToken} \cup [present : {TRUE}, signed : BOOLEAN,
                    role : {"admin", "user", "guest"}]

\* mutant: the role claim is read without verifying the signature
verifyJwtRole_Unverified(token, secretSet) ==
    IF ~token.present \/ ~secretSet THEN "null"
    ELSE IF token.role \in {"admin", "user"} THEN token.role
    ELSE "null"

verifyJwtRole(token, secretSet) ==
    IF ~token.present THEN "null"
    ELSE IF ~secretSet THEN "null"
    ELSE IF ~token.signed THEN "null"
    ELSE IF token.role \in {"admin", "user"} THEN token.role
    ELSE "null"

\* the RBAC gate of the middleware: "next" or the status it answers
AdminGate(path, token, secretSet) ==
    IF StartsWith(path, <<"api", "admin">>)
    THEN IF path = <<"api", "admin", "setup">> THEN "next"
         ELSE IF verifyJwtRole(token, secretSet) # "admin" THEN "403"
         ELSE "next"
    ELSE "next"

EdgeKey(path, ip) ==
    <<IF StartsWith(path, <<"api", "auth">>) THEN "auth" ELSE "api", ip>>

EdgeMax(path) ==
    IF StartsWith(path, <<"api", "auth">>) THEN EdgeMaxAuth ELSE EdgeMaxApi

NoEdgeResp ==
    [path |-> <<>>, ip |-> "none", token |-> NoToken, secretSet |-> FALSE,
     status |-> "none", retryAfter |-> 0]

\* middleware(req): the rate limit of the key, then the RBAC gate
Middleware ==
    \E path \in Paths, ip \in EdgeIps, token \in Tokens, secretSet \in BOOLEAN :
        LET key == EdgeKey(path, ip)
            counted == Counted(edgeLimit[key], clock, EdgeWindowMs)
            limited == Limited(edgeLimit[key], clock, EdgeWindowMs,
                               EdgeMax(path))
        IN /\ counted.count <= EdgeMax(path) + MaxRejected
           /\ edgeLimit' = [edgeLimit EXCEPT ![key] = counted]
           /\ edgeResp' =
                [path |-> path, ip |-> ip, token |-> token,
                 secretSet |-> secretSet,
                 status |-> IF limited THEN "429"
                            ELSE AdminGate(path, token, secretSet),
                 retryAfter |-> IF limited
                                THEN RetryAfterSeconds(counted, clock)
                                ELSE 0]
           /\ UNCHANGED <<placementVars, ruleVars, ledgerVars, timeVars,
                          routeVars, svcVars, treeVars, dbVars>>

\* ------------------------------------------------------- withRateLimit
\* the options of the rate-limited routes: login and purchase creation
RouteLimits ==
    { [keyPrefix |-> "auth:login", windowMs |-> 60000, max |-> 20],
      [keyPrefix |-> "purchases:create", windowMs |-> 60000, max |-> 60] }

ClientIps == {"10.0.0.1", "10.0.0.2"}

\* the requests that arrive: logins of two clients, purchases of one
RouteRequests ==
    {<<o, ip>> \in RouteLimits \X ClientIps :
        o.keyPrefix = "auth:login" \/ ip = "10.0.0.1"}

RouteKeys == {o.keyPrefix : o \in RouteLimits} \X ClientIps

NoRouteResp ==
    [key |-> <<"none", "none">>, max |-> 0, status |-> "none",
     retryAfter |-> 0]

\* withRateLimit(options, handler)(req): the count of the key, then 429 or
\* the handler
LimitedRequest ==
    \E req \in RouteRequests :
        LET options == req[1]
            key == <<options.keyPrefix, req[2]>>
            old == routeLimit[key]
            counted == Counted(old, clock, options.windowMs)
            limited == Limited(old, clock, options.windowMs, options.max)
        IN /\ counted.count <= options.max + MaxRejected
           /\ routeLimit' = [routeLimit EXCEPT ![key] = counted]
           /\ handled' = [handled EXCEPT ![key] =
                            IF limited THEN handled[key]
                            ELSE IF counted.count = 1 THEN 1
                            ELSE handled[key] + 1]
           /\ routeResp' =
                [key |-> key, max |-> options.max,
                 status |-> IF limited THEN "429" ELSE "handler",
                 retryAfter |-> IF limited
                                THEN RetryAfterSeconds(counted, clock)
                                ELSE 0]
           /\ UNCHANGED <<placementVars, ruleVars, ledgerVars, timeVars,
                          edgeVars, svcVars, treeVars, dbVars>>

\* ------------------------------------------------------- Service routes
\* the fields of a Service document that the routes write; NoNumber and
\* Absent stand for a field that is not set
ServiceDoc(businessVolume, bv, status, isActive) ==
    [businessVolume |-> businessVolume, bv |-> bv, status |-> status,
     isActive |-> isActive]

\* the pre("validate") hook of the schema, after the default of status
syncLegacyFields(doc) ==
    LET d1 == IF doc.businessVolume = NoNumber /\ doc.bv # NoNumber
              THEN [doc EXCEPT !.businessVolume = doc.bv] ELSE doc
        d2 == IF d1.status = Absent /\ d1.isActive # Absent
              THEN [d1 EXCEPT !.status = IF d1.isActive = "true"
                                        THEN "active" ELSE "inactive"]
              ELSE d1
        d3 == IF d2.businessVolume # NoNumber
              THEN [d2 EXCEPT !.bv = d2.businessVolume] ELSE d2
    IN IF d3.status # Absent
       THEN [d3 EXCEPT !.isActive = IF d3.status = "active"
                                    THEN "true" ELSE "false"]
       ELSE d3

\* business volumes of request bodies; the last one fails min(0)
BodyVolumes == {0, 5, 0 - 5}

Statuses == {"active", "inactive"}

\* bodies of POST /api/admin/services
CreateBodies == [businessVolume : BodyVolumes, status : Statuses \cup {Absent}]

\* bodies of PUT /api/admin/services/:id: every field is optional, one is
\* required
UpdateBodies ==
    [businessVolume : BodyVolumes \cup {NoNumber}, status : Statuses \cup {Absent}]
        \ {[businessVolume |-> NoNumber, status |-> Absent]}

SvcAnswer(op, status) == [op |-> op, status |-> status]

\* POST /api/admin/services: ServiceModel.create validates the document,
\* which runs the hook
ServiceCreate ==
    /\ Len(services) < MaxServices
    /\ UNCHANGED <<placementVars, ruleVars, ledgerVars, timeVars, edgeVars,
                   routeVars, treeVars, dbVars>>
    /\ \E isAdmin \in BOOLEAN, body \in CreateBodies :
        IF ~isAdmin
        THEN UNCHANGED services /\ svcResp' = SvcAnswer("post", "403")
        ELSE IF body.businessVolume < 0
        THEN UNCHANGED services /\ svcResp' = SvcAnswer("post", "400")
        ELSE /\ services' = Append(services,
                    syncLegacyFields(
                        ServiceDoc(body.businessVolume, NoNumber,
                            IF body.status = Absent THEN "active"
                            ELSE body.status, Absent)))
             /\ svcResp' = SvcAnswer("post", "201")

\* the document after { $set: body }
ServiceUpdated(doc, body) ==
    [doc EXCEPT
        !.businessVolume = IF body.businessVolume = NoNumber
                           THEN doc.businessVolume ELSE body.businessVolume,
        !.status = IF body.status = Absent THEN doc.status ELSE body.status]

\* PUT /api/admin/services/:id: findByIdAndUpdate writes the fields of the
\* body; no document is validated, so the hook does not run
ServicePut ==
    /\ UNCHANGED <<placementVars, ruleVars, ledgerVars, timeVars, edgeVars,
                   routeVars, treeVars, dbVars>>
    /\ \E isAdmin \in BOOLEAN, body \in UpdateBodies,
          id \in 1..(Len(services) + 1) :
        IF ~isAdmin
        THEN UNCHANGED services /\ svcResp' = SvcAnswer("put", "403")
        ELSE IF body.businessVolume # NoNumber /\ body.businessVolume < 0
        THEN UNCHANGED services /\ svcResp' = SvcAnswer("put", "400")
        ELSE IF id > Len(services)
        THEN UNCHANGED services /\ svcResp' = SvcAnswer("put", "404")
        ELSE /\ services' = [services EXCEPT
                                ![id] = ServiceUpdated(services[id], body)]
             /\ svcResp' = SvcAnswer("put", "200")

\* --------------------------------------------- GET /api/referrals/tree
\* the auth context of the caller: none, two users and an admin
NoAuth == [role |-> "none", userId |-> 0]

AuthContexts ==
    {NoAuth, [role |-> "user", userId |-> 1], [role |-> "user", userId |-> 2],
     [role |-> "admin", userId |-> 3]}

\* the userId parameter: 0 when it is missing
UserIdParams == 0..3

\* the depth parameter: NoNumber when it is missing
DepthParams == {NoNumber, 0, 3, 50, 51, 0 - 2}

\* z.coerce.number().int().min(0).max(50).default(3)
ParsedDepth(depth) == IF depth = NoNumber THEN 3 ELSE depth

\* querySchema.parse succeeds
QueryParses(userId, depth) ==
    userId # 0 /\ ParsedDepth(depth) >= 0 /\ ParsedDepth(depth) <= 50

\* mutant: only a caller without one of the two roles is refused
TreeForbidden_RoleOnly(ctx, userId) == ctx.role # "admin" /\ ctx.role # "user"

\* ctx.role !== "admin" && parsed.userId !== ctx.userId
TreeForbidden(ctx, userId) == ctx.role # "admin" /\ userId # ctx.userId

NoTreeResp ==
    [ctx |-> NoAuth, userId |-> 0, depth |-> NoNumber, status |-> "none",
     built |-> FALSE]

\* the handler: requireAuth, the query, the owner check, buildReferralTree
TreeGet ==
    /\ UNCHANGED <<placementVars, ruleVars, ledgerVars, timeVars, edgeVars,
                   routeVars, svcVars, dbVars>>
    /\ \E ctx \in AuthContexts, userId \in UserIdParams,
          depth \in DepthParams, buildThrows \in BOOLEAN :
        LET answer(status, built) ==
                [ctx |-> ctx, userId |-> userId, depth |-> depth,
                 status |-> status, built |-> built]
        IN treeResp' =
            IF ctx = NoAuth THEN answer("401", FALSE)
            ELSE IF ~QueryParses(userId, depth) THEN answer("400", FALSE)
            ELSE IF TreeForbidden(ctx, userId) THEN answer("403", FALSE)
            ELSE IF buildThrows THEN answer("400", FALSE)
            ELSE answer("200", TRUE)

\* ------------------------------------------------------ connectToDatabase
Callers == 1..NumCallers

\* a connection is named by the number of the connect call that made it;
\* 0 is null, NoNumber in `got` is a thrown error
IdleCall == [pc |-> "idle", promise |-> 0, got |-> 0, calls |-> 0]

\* mutant: connect is started whenever no connection is cached
NeedsConnect_NoConn(c) == c.conn = 0

\* !cached.promise
NeedsConnect(c) == c.promise = 0

\* connectToDatabase() up to its await: the cached connection is returned,
\* or the cached promise awaited after mongoose.connect was started if none
\* was
ConnectCall(c) ==
    /\ dbCall[c].pc = "idle"
    /\ dbCall[c].calls < MaxCalls
    /\ UNCHANGED <<placementVars, ruleVars, ledgerVars, timeVars, edgeVars,
                   routeVars, svcVars, treeVars>>
    /\ IF cached.conn # 0
       THEN /\ dbCall' = [dbCall EXCEPT ![c].got = cached.conn,
                                        ![c].calls = dbCall[c].calls + 1]
            /\ UNCHANGED <<cached, promises>>
       ELSE LET started == NeedsConnect(cached)
                awaited == IF started THEN Len(promises) + 1
                           ELSE cached.promise
            IN /\ promises' = IF started THEN Append(promises, "pending")
                              ELSE promises
               /\ cached' = [cached EXCEPT !.promise = awaited]
               /\ dbCall' = [dbCall EXCEPT ![c].pc = "await",
                                           ![c].promise = awaited,
                                           ![c].got = 0,
                                           ![c].calls = dbCall[c].calls + 1]

\* the connection attempt of a promise ends: it resolves or rejects
ConnectSettles ==
    /\ \E i \in 1..Len(promises), outcome \in {"resolved", "rejected"} :
        /\ promises[i] = "pending"
        /\ promises' = [promises EXCEPT ![i] = outcome]
    /\ UNCHANGED <<placementVars, ruleVars, ledgerVars, timeVars, edgeVars,
                   routeVars, svcVars, treeVars, cached, dbCall>>

\* cached.conn = await cached.promise; return cached.conn
ConnectResume(c) ==
    LET i == dbCall[c].promise IN
    /\ dbCall[c].pc = "await"
    /\ promises[i] # "pending"
    /\ UNCHANGED <<placementVars, ruleVars, ledgerVars, timeVars, edgeVars,
                   routeVars, svcVars, treeVars, promises>>
    /\ IF promises[i] = "resolved"
       THEN /\ cached' = [cached EXCEPT !.conn = i]
            /\ dbCall' = [dbCall EXCEPT ![c].pc = "idle", ![c].got = i]
       ELSE /\ UNCHANGED cached
            /\ dbCall' = [dbCall EXCEPT ![c].pc = "idle", ![c].got = NoNumber]

InitWeb ==
    /\ cached = [conn |-> 0, promise |-> 0]
    /\ promises = <<>>
    /\ dbCall = [c \in Callers |-> IdleCall]
    /\ treeResp = NoTreeResp
    /\ services = <<>>
    /\ svcResp = SvcAnswer("none", "none")
    /\ clock = 0
    /\ ticks = 0
    /\ edgeLimit = [k \in EdgeKeys |-> NoEntry]
    /\ edgeResp = NoEdgeResp
    /\ routeLimit = [k \in RouteKeys |-> NoEntry]
    /\ handled = [k \in RouteKeys |-> 0]
    /\ routeResp = NoRouteResp

\* ------------------------------------------------------- initial trees
Root == NewUser(0, "null", "user")
Legacy(parent) == NewUser(parent, "null", "user")

InitTrees ==
    { <<Root>>,
      <<Root, Root>>,
      <<Root, Legacy(1)>>,
      <<Root, Legacy(1), Legacy(1)>>,
      <<Root, Legacy(1), Legacy(1), Legacy(1)>> }

\* a downline of six levels below a root, and a second member under the
\* fifth level: members 7 and 8 share the ancestors 5, 4, 3, 2, 1
ChainTree ==
    <<Root, NewUser(1, "left", "user"), NewUser(2, "left", "user"),
      NewUser(3, "left", "user"), NewUser(4, "left", "user"),
      NewUser(5, "left", "user"), NewUser(6, "left", "user"),
      NewUser(5, "right", "user")>>

\* rule stores the rule routes leave behind
InitRuleStores ==
    { <<NewRule(PctDen \div 10, TRUE, TRUE)>>,
      <<NewRule(PctDen \div 10, FALSE, TRUE)>>,
      <<NewRule(PctDen \div 10, TRUE, FALSE)>> }

InitPlacement ==
    /\ users \in InitTrees
    /\ reg = [p \in Procs |-> IdleReg]
    /\ regResp = RegAnswer("none", 0, "null")
    /\ backfills = <<>>
    /\ InitRules
    /\ InitLedger
    /\ InitWeb

NextPlacement ==
    \E p \in Procs :
        \/ RegisterStart(p)
        \/ SearchStep(p)
        \/ BackfillLeft(p)
        \/ BackfillRight(p)
        \/ CreateUser(p)
        \/ SetupStart(p)
        \/ SetupCreate(p)

SpecPlacement == InitPlacement /\ [][NextPlacement]_vars

\* registrations without the admin setup
NextRegistration ==
    \E p \in Procs :
        \/ RegisterStart(p)
        \/ SearchStep(p)
        \/ BackfillLeft(p)
        \/ BackfillRight(p)
        \/ CreateUser(p)

\* the event loop resumes every search that awaits a query or an update
SpecPlacementFair ==
    /\ InitPlacement
    /\ [][NextRegistration]_vars
    /\ \A p \in Procs :
        /\ WF_vars(SearchStep(p))
        /\ WF_vars(BackfillLeft(p))
        /\ WF_vars(BackfillRight(p))

\* stores whose parent references are malformed: a member that is its own
\* left child, the same with legacy children without position, and two
\* members that are each other's left child, both with a right child
MalformedTrees ==
    { <<NewUser(1, "left", "user"), NewUser(1, "right", "user")>>,
      <<Legacy(1), Legacy(1), Legacy(1)>>,
      <<NewUser(2, "left", "user"), NewUser(1, "left", "user"),
        NewUser(1, "right", "user"), NewUser(2, "right", "user")>> }

InitMalformed ==
    /\ users \in MalformedTrees
    /\ reg = [p \in Procs |-> IdleReg]
    /\ regResp = RegAnswer("none", 0, "null")
    /\ backfills = <<>>
    /\ InitRules
    /\ InitLedger
    /\ InitWeb

\* registrations over a malformed store; the event loop resumes every
\* search that awaits a query or an update
SpecMalformed ==
    /\ InitMalformed
    /\ [][NextRegistration]_vars
    /\ \A p \in Procs :
        /\ WF_vars(SearchStep(p))
        /\ WF_vars(BackfillLeft(p))
        /\ WF_vars(BackfillRight(p))

\* registrations with the referral code of a root, one after the other,
\* over roots without descendants
InitFill ==
    /\ users \in {<<Root>>, <<Root, Root>>}
    /\ reg = [p \in Procs |-> IdleReg]
    /\ regResp = RegAnswer("none", 0, "null")
    /\ backfills = <<>>
    /\ InitRules
    /\ InitLedger
    /\ InitWeb

\* no other registration is in flight
RegAlone(p) == \A q \in Procs \ {p} : reg[q].pc = "idle"

\* a request that carries the referral code of a root and passes the checks
ReferredRegisterStart(p) ==
    /\ RegAlone(p)
    /\ RegisterStart(p)
    /\ reg'[p].sponsor # 0
    /\ users[reg'[p].sponsor].parent = 0

SoloSearchStep(p) == RegAlone(p) /\ SearchStep(p)

SoloCreateUser(p) == RegAlone(p) /\ CreateUser(p)

NextFill ==
    \E p \in Procs :
        \/ ReferredRegisterStart(p)
        \/ SoloSearchStep(p)
        \/ SoloCreateUser(p)

SpecFill == InitFill /\ [][NextFill]_vars

\* rule administration alone, over a store without registrations
InitRuleAdmin ==
    /\ users = <<Root>>
    /\ reg = [p \in Procs |-> IdleReg]
    /\ regResp = RegAnswer("none", 0, "null")
    /\ backfills = <<>>
    /\ InitRules
    /\ InitLedger
    /\ InitWeb

SpecRules == InitRuleAdmin /\ [][NextRules]_vars

\* purchases and income reads over a fixed tree and a fixed rule store
InitPurchases ==
    /\ users = ChainTree
    /\ reg = [p \in Procs |-> IdleReg]
    /\ regResp = RegAnswer("none", 0, "null")
    /\ backfills = <<>>
    /\ rules \in InitRuleStores
    /\ adm = [a \in Admins |-> IdleAdm]
    /\ admResp = [op |-> "none", status |-> "none"]
    /\ overlapped = FALSE
    /\ superseded = {}
    /\ InitLedger
    /\ InitWeb

SpecLedger == InitPurchases /\ [][NextLedger]_vars

\* the event loop resumes every request that awaits a ledger write: a walk
\* that can write its next level eventually does, or is aborted
SpecLedgerFair ==
    /\ InitPurchases
    /\ [][NextLedger]_vars
    /\ \A p \in BuyerProcs : WF_vars(CreditLevel(p))

\* purchases under the decaying rule with a concurrent reader
InitIncomeReads ==
    /\ users = ChainTree
    /\ reg = [p \in Procs |-> IdleReg]
    /\ regResp = RegAnswer("none", 0, "null")
    /\ backfills = <<>>
    /\ rules = <<NewRule(PctDen \div 10, TRUE, TRUE)>>
    /\ adm = [a \in Admins |-> IdleAdm]
    /\ admResp = [op |-> "none", status |-> "none"]
    /\ overlapped = FALSE
    /\ superseded = {}
    /\ InitLedger
    /\ InitWeb

SpecIncomeReads == InitIncomeReads /\ [][NextIncomeReads]_vars

\* updates and removals of rules and purchases over one store, one request
\* after the other
InitHistory ==
    /\ users = ChainTree
    /\ reg = [p \in Procs |-> IdleReg]
    /\ regResp = RegAnswer("none", 0, "null")
    /\ backfills = <<>>
    /\ rules = <<NewRule(PctDen \div 10, TRUE, TRUE)>>
    /\ adm = [a \in Admins |-> IdleAdm]
    /\ admResp = [op |-> "none", status |-> "none"]
    /\ overlapped = FALSE
    /\ superseded = {}
    /\ InitLedger
    /\ InitWeb

RequestsInFlight ==
    Cardinality(AdmInFlight)
    + Cardinality({p \in BuyerProcs : txn[p].pc # "idle"})

\* no request is in flight, or the one in flight is the one that goes on
Alone(busy) == RequestsInFlight = 0 \/ busy

AdminAlone(a) == Alone(adm[a].pc # "idle")

BuyerAlone(p) == Alone(txn[p].pc # "idle")

SoloRulePut(a) == AdminAlone(a) /\ RulePut(a)

SoloRulePutUpdate(a) == AdminAlone(a) /\ RulePutUpdate(a)

SoloRuleDelete(a) == AdminAlone(a) /\ RuleDelete(a)

SoloPurchaseStart(p) == BuyerAlone(p) /\ PurchaseStart(p)

SoloTxnCreate(p) == BuyerAlone(p) /\ TxnCreate(p)

SoloDistributeStart(p) == BuyerAlone(p) /\ DistributeStart(p)

SoloCreditLevel(p) == BuyerAlone(p) /\ CreditLevel(p)

SoloFinalize(p) == BuyerAlone(p) /\ Finalize(p)

SoloCommit(p) == BuyerAlone(p) /\ Commit(p)

SoloTransient(p) == BuyerAlone(p) /\ Transient(p)

NextHistory ==
    \/ \E a \in Admins :
        \/ SoloRulePut(a)
        \/ SoloRulePutUpdate(a)
        \/ SoloRuleDelete(a)
    \/ \E p \in BuyerProcs :
        \/ SoloPurchaseStart(p)
        \/ SoloTxnCreate(p)
        \/ SoloDistributeStart(p)
        \/ SoloCreditLevel(p)
        \/ SoloFinalize(p)
        \/ SoloCommit(p)
        \/ SoloTransient(p)

SpecHistory == InitHistory /\ [][NextHistory]_vars

\* requests to the edge middleware over an idle store
InitEdge ==
    /\ users = <<Root>>
    /\ reg = [p \in Procs |-> IdleReg]
    /\ regResp = RegAnswer("none", 0, "null")
    /\ backfills = <<>>
    /\ InitRules
    /\ InitLedger
    /\ InitWeb

NextEdge == Middleware \/ Tick

SpecEdge == InitEdge /\ [][NextEdge]_vars

\* requests to the rate-limited routes over an idle store
NextRoutes == LimitedRequest \/ Tick

SpecRoutes == InitEdge /\ [][NextRoutes]_vars

\* administration of the services over an idle store
NextServices == ServiceCreate \/ ServicePut

SpecServices == InitEdge /\ [][NextServices]_vars

\* referral-tree requests over an idle store
NextTree == TreeGet

SpecTree == InitEdge /\ [][NextTree]_vars

\* callers of connectToDatabase over an idle store
NextConnect ==
    \/ \E c \in Callers : ConnectCall(c) \/ ConnectResume(c)
    \/ ConnectSettles

SpecConnect == InitEdge /\ [][NextConnect]_vars

Init == InitPlacement

Next == NextPlacement \/ NextRules \/ NextIncomeReads

\* the three parts together
Spec == Init /\ [][Next]_vars

\* ------------------------------------------------------------ placement claims
UserIds == 1..Len(users)

UniqueSlots ==
    \A i, j \in UserIds :
        (i # j /\ users[i].parent # 0 /\ users[i].parent = users[j].parent
            /\ users[i].position \in Positions)
        => users[i].position # users[j].position

SlotTaken(parent, position) ==
    \E i \in UserIds : users[i].parent = parent /\ users[i].position = position

\* a registration whose member creation meets an occupied slot creates nothing
RaceRejected ==
    \A p \in Procs :
        (reg[p].pc = "create" /\ reg'[p].pc = "idle"
            /\ reg[p].parentId # 0 /\ SlotTaken(reg[p].parentId, reg[p].position))
        => (users' = users /\ regResp'.status \in {"dup", "400"})

\* C1: under every interleaving of registrations no two members share a
\* (parent, position) pair, and a registration racing for a slot that was
\* taken in the meantime is rejected by the store without creating a member.
C1_UniqueSlotUnderRaces == [](UniqueSlots) /\ [][RaceRejected]_vars

\* a registration lost the race: the store rejected its insert for a slot
\* that another member holds
C1_Witness ==
    /\ regResp.status = "dup"
    /\ SlotTaken(regResp.parentId, regResp.position)
    /\ Cardinality({i \in UserIds : users[i].parent = regResp.parentId}) = 2

\* every member below a parent has a position
WellFormed == \A i \in UserIds : users[i].parent # 0 => users[i].position \in Positions

\* level-order number of node n in the binary tree rooted at s (root 1, left
\* child 2h, right child 2h+1); 0 when n is not in the subtree of s
RECURSIVE HeapIdx(_, _)
HeapIdx(s, n) ==
    IF n = s THEN 1
    ELSE IF users[n].parent = 0 THEN 0
    ELSE LET h == HeapIdx(s, users[n].parent)
         IN IF h = 0 THEN 0
            ELSE 2 * h + (IF users[n].position = "right" THEN 1 ELSE 0)

SlotIdx(s, n, pos) == 2 * HeapIdx(s, n) + (IF pos = "right" THEN 1 ELSE 0)

OpenSlots(s) ==
    {sl \in UserIds \X Positions :
        HeapIdx(s, sl[1]) # 0 /\ ~SlotTaken(sl[1], sl[2])}

IsFirstOpenSlot(s, n, pos) ==
    /\ <<n, pos>> \in OpenSlots(s)
    /\ \A sl \in OpenSlots(s) : SlotIdx(s, n, pos) <= SlotIdx(s, sl[1], sl[2])

\* a search that ended with a slot while no member was created meanwhile
QuietResult(p) ==
    /\ reg[p].pc = "create"
    /\ reg[p].sponsor # 0
    /\ reg[p].startLen = Len(users)

\* C2: on a well-formed tree findBinaryPlacement returns the first open slot
\* of the sponsor's subtree in level order (minimal depth, then left to right,
\* left before right under one node).
C2_ShallowestLeftmost ==
    \A p \in Procs :
        (QuietResult(p) /\ WellFormed)
        => IsFirstOpenSlot(reg[p].sponsor, reg[p].parentId, reg[p].position)

\* the sponsor's two slots are occupied, its left child has a free left slot,
\* and the search answered (left child, left)
C2_Witness ==
    \E p \in Procs, a, b \in UserIds :
        /\ QuietResult(p) /\ WellFormed
        /\ users[a].parent = reg[p].sponsor /\ users[a].position = "left"
        /\ users[b].parent = reg[p].sponsor /\ users[b].position = "right"
        /\ ~SlotTaken(a, "left") /\ ~SlotTaken(b, "right")
        /\ reg[p].parentId = a /\ reg[p].position = "left"

\* ------------------------------------------------------------ rule claims
NumActive == Cardinality(ActiveRuleIds(rules))

\* C5: after any sequence of rule create and update calls none of which
\* overlaps another, at most one rule has isActive = true.
C5_OneActiveSequential == ~overlapped => NumActive <= 1

\* without overlap, an update with isActive = true has moved the flag from an
\* older rule to another one
C5_Witness ==
    /\ ~overlapped
    /\ admResp = [op |-> "put", status |-> "200"]
    /\ \E i, j \in LiveRuleIds(rules) :
        /\ i < j /\ rules[i].isActive /\ ~rules[j].isActive

\* C6: at no instant, under any interleaving of activations, is more than
\* one rule active.
C6_OneActiveAlways == NumActive <= 1

\* ---------------------------------------------------------- ledger claims
\* In SpecLedger and SpecIncomeReads the rule store does not change, so the
\* rule every distribution resolved is the active rule of the state.
Rule == ResolveActiveRule(rules)

RECURSIVE Pow2(_)
Pow2(n) == IF n = 0 THEN 1 ELSE 2 * Pow2(n - 1)

\* the ancestor n parent hops above member u, 0 above a root
RECURSIVE Ancestor(_, _)
Ancestor(u, n) ==
    IF u = 0 THEN 0
    ELSE IF n = 0 THEN u
    ELSE Ancestor(users[u].parent, n - 1)

ChainLen(u) == Cardinality({n \in 1..Len(users) : Ancestor(u, n) # 0})

\* the schedule in closed form
PctAt(n) ==
    IF Rule.decayEnabled THEN Rule.basePercentage \div Pow2(n - 1)
    ELSE Rule.basePercentage

\* the levels a purchase of bv by u credits
CreditedLevels(u, bv) ==
    {n \in 1..ChainLen(u) :
        \A m \in 1..n : ~RoundsToZero(bv * PctAt(m))}

Pids == 1..(nextPid - 1)

RowsOf(store, pid) == SelectSeq(store, LAMBDA r : r.purchase = pid)

PurchaseRows(pid) == SelectSeq(purchases, LAMBDA r : r.id = pid)

LevelsIn(rows) == {rows[k].level : k \in 1..Len(rows)}

NothingOf(pid) ==
    /\ PurchaseRows(pid) = <<>>
    /\ RowsOf(incomes, pid) = <<>>
    /\ RowsOf(incomeLogs, pid) = <<>>

\* the purchase with its finalized BV and the rows of every credited level
CompleteOf(pid) ==
    /\ Len(PurchaseRows(pid)) = 1
    /\ LET pur == PurchaseRows(pid)[1]
       IN /\ pur.bv \in BVs
          /\ LevelsIn(RowsOf(incomes, pid)) = CreditedLevels(pur.user, pur.bv)
          /\ LevelsIn(RowsOf(incomeLogs, pid)) = CreditedLevels(pur.user, pur.bv)

\* C3: the purchase transaction is all-or-nothing: after a failed request
\* no Purchase, Income or IncomeLog row of it exists; after a successful one
\* the Purchase with finalized BV and all its Income rows exist.
C3_AllOrNothing ==
    /\ purResp.status = "failed" => NothingOf(purResp.purchaseId)
    /\ purResp.status = "201" => CompleteOf(purResp.purchaseId)

\* the write for the third ancestor of a member with five ancestors failed
C3_Witness ==
    /\ purResp.status = "failed"
    /\ purResp.purchaseId # 0
    /\ ChainLen(purResp.user) = 5
    /\ purResp.levelsPaid = 2
    /\ NothingOf(purResp.purchaseId)

\* C4: at every instant the committed collections hold, of every purchase,
\* either nothing or the purchase with finalized BV and all its Income and
\* IncomeLog rows; a reader never gets an Income row whose purchase is
\* missing or still carries the placeholder BV.
C4_NoPartialVisible ==
    /\ \A pid \in Pids : NothingOf(pid) \/ CompleteOf(pid)
    /\ reader.pc = "done" =>
        \A k \in 1..Len(reader.rows) : reader.bvs[k] \in BVs

\* a read that ran while a transaction held uncommitted rows returned the
\* rows of a committed purchase only
C4_Witness ==
    /\ reader.pc = "done"
    /\ reader.during
    /\ Len(reader.rows) = 1
    /\ \E p \in BuyerProcs :
        /\ txn[p].bIncomes # <<>>
        /\ Len(txn[p].bIncomes) < ChainLen(txn[p].user)
        /\ NothingOf(txn[p].bPurchases[1].id)

\* C7: while no rule is active no purchase completes: the request ends
\* with NoActiveRule and no Purchase, Income or IncomeLog row exists.
C7_NoActiveRule ==
    ~Rule.found =>
        /\ purchases = <<>> /\ incomes = <<>> /\ incomeLogs = <<>>
        /\ purResp.status \in {"none", "NoActiveRule", "failed"}
        /\ \A p \in BuyerProcs : txn[p].pc \in {"idle", "begin", "created"}

\* a request created its Purchase row, met no active rule and left nothing
C7_Witness ==
    /\ ~Rule.found
    /\ purResp.status = "NoActiveRule"
    /\ purResp.purchaseId # 0
    /\ NothingOf(purResp.purchaseId)

CountAt(rows, n) == Cardinality({k \in 1..Len(rows) : rows[k].level = n})

ExactlyOncePerLevel ==
    \A k \in 1..Len(purchases) :
        LET pur == purchases[k]
            rows == RowsOf(incomes, pur.id)
        IN /\ \A n \in CreditedLevels(pur.user, pur.bv) :
                /\ CountAt(rows, n) = 1
                /\ \E j \in 1..Len(rows) :
                    /\ rows[j].level = n
                    /\ rows[j].toUser = Ancestor(pur.user, n)
                    /\ rows[j].fromUser = pur.user
           /\ Len(rows) = Cardinality(CreditedLevels(pur.user, pur.bv))

\* committed Income rows stay as they are
CreditsKept ==
    /\ Len(incomes') >= Len(incomes)
    /\ \A k \in 1..Len(incomes) : incomes'[k] = incomes[k]

\* C8: under every interleaving of purchases and retried callbacks a
\* committed purchase has exactly one Income row per credited level, and
\* no purchase removes or changes the rows of another.
C8_ExactlyOnce == [](ExactlyOncePerLevel) /\ [][CreditsKept]_vars

\* two buyers' purchases are committed and both credit the same ancestor
C8_Witness ==
    \E i, j \in 1..Len(incomes) :
        /\ incomes[i].purchase # incomes[j].purchase
        /\ incomes[i].fromUser # incomes[j].fromUser
        /\ incomes[i].toUser = incomes[j].toUser
        /\ Len(purchases) = 2

\* C9: with decay the row of level n carries basePercentage / 2^(n-1) and
\* the amount bv times that percentage.
C9_DecaySchedule ==
    Rule.decayEnabled =>
        \A k \in 1..Len(incomes) :
            LET r == incomes[k] IN
            /\ r.percentage * Pow2(r.level - 1) = Rule.basePercentage
            /\ r.amount * Pow2(r.level - 1)
                = PurchaseBv(r.purchase) * Rule.basePercentage

\* base 10 %, BV 100, six ancestors: 10 %, 5 %, 2.5 %, 1.25 %, 0.625 % and
\* 0.3125 % of BV (1/10, 1/20, ... 1/320 of PctDen per unit of BV)
C9_Witness ==
    /\ Rule.decayEnabled /\ Rule.basePercentage * 10 = PctDen
    /\ \E pid \in Pids :
        LET rows == RowsOf(incomes, pid)
        IN /\ PurchaseBv(pid) = 100
           /\ Len(rows) = 6
           /\ [k \in 1..6 |-> rows[k].amount] =
                <<100 * (PctDen \div 10), 100 * (PctDen \div 20),
                  100 * (PctDen \div 40), 100 * (PctDen \div 80),
                  100 * (PctDen \div 160), 100 * (PctDen \div 320)>>

\* C10: without decay every row carries the flat basePercentage and the
\* amount bv times basePercentage.
C10_FlatSchedule ==
    (Rule.found /\ ~Rule.decayEnabled) =>
        \A k \in 1..Len(incomes) :
            LET r == incomes[k] IN
            /\ r.percentage = Rule.basePercentage
            /\ r.amount = PurchaseBv(r.purchase) * Rule.basePercentage

\* a purchase under the flat rule credited six levels with the same amount
C10_Witness ==
    /\ Rule.found /\ ~Rule.decayEnabled
    /\ \E pid \in Pids :
        LET rows == RowsOf(incomes, pid)
        IN /\ Len(rows) = 6
           /\ \A k \in 1..6 : rows[k].level = k /\ rows[k].amount = rows[1].amount

\* ------------------------------------------------------------ walk claims
Walking(p) == txn[p].pc = "walk"

\* the walk of a transaction stands at the ancestor `level` hops above the
\* purchaser, has credited exactly the ancestors below it, one per level,
\* and is over exactly at a root or at an amount that rounds to zero
WalkShape ==
    \A p \in BuyerProcs :
        LET t == txn[p] IN
        t.pc \in {"walk", "finalize", "commit"} =>
            /\ t.cur = Ancestor(t.user, t.level)
            /\ Len(t.bIncomes) = t.level - 1
            /\ \A k \in 1..Len(t.bIncomes) :
                /\ t.bIncomes[k].level = k
                /\ t.bIncomes[k].toUser = Ancestor(t.user, k)
                /\ t.bIncomes[k].toUser \notin {0, t.user}
                /\ ~RoundsToZero(t.bIncomes[k].amount)
            /\ (t.pc = "walk") =
                (t.cur # 0 /\ ~RoundsToZero(LevelAmount(t.bv, t.pct)))
            /\ t.level <= ChainLen(t.user) + 1

\* the answer's levelsPaid counts the credited ancestors
LevelsPaidCounts ==
    purResp.status = "201" =>
        /\ purResp.levelsPaid =
            Cardinality(CreditedLevels(purResp.user,
                                       PurchaseBv(purResp.purchaseId)))
        /\ purResp.levelsPaid = Len(RowsOf(incomes, purResp.purchaseId))

\* C11: the walk credits the purchaser's parent as level 1 and then one
\* ancestor per parent hop, never the purchaser, with no depth limit; it is
\* over exactly at a root or at the first amount that rounds to zero, every
\* walk over a finite chain ends, and levelsPaid is the number of ancestors
\* credited.
C11_WalkTerminates ==
    /\ [](WalkShape /\ LevelsPaidCounts)
    /\ \A p \in BuyerProcs : Walking(p) ~> ~Walking(p)

\* a purchase of a member with six ancestors, all amounts above the rounding
\* threshold, answered levelsPaid = 6 after a walk that ended at the root
C11_Witness ==
    /\ purResp.status = "201"
    /\ ChainLen(purResp.user) = 6
    /\ purResp.levelsPaid = 6
    /\ LET rows == RowsOf(incomes, purResp.purchaseId)
       IN /\ Len(rows) = 6
          /\ rows[1].toUser = users[purResp.user].parent
          /\ users[rows[6].toUser].parent = 0

\* ------------------------------------------------------- log claims
RECURSIVE SumAmounts(_)
SumAmounts(rows) ==
    IF rows = <<>> THEN 0 ELSE Head(rows).amount + SumAmounts(Tail(rows))

\* the rows of a purchase pair up: one log row per Income row, same
\* beneficiary, level and amount
RowsPaired(pid) ==
    LET ins == RowsOf(incomes, pid)
        logs == RowsOf(incomeLogs, pid)
    IN /\ Len(ins) = Len(logs)
       /\ \A k \in 1..Len(ins) :
            /\ logs[k].toUser = ins[k].toUser
            /\ logs[k].level = ins[k].level
            /\ logs[k].incomeAmount = ins[k].amount
       /\ totalIncomeDistributed(logs) = SumAmounts(ins)

\* C12: every committed purchase has one IncomeLog row per Income row with
\* the same amount, so the sums of the two agree per purchase and in the
\* dashboard total, and the answer's logsCreated is the number of log rows
\* that exist for the purchase.
C12_LogsMatchIncomes ==
    /\ \A pid \in Pids : RowsPaired(pid)
    /\ totalIncomeDistributed(incomeLogs) = SumAmounts(incomes)
    /\ purResp.status = "201" =>
        /\ purResp.logsCreated = Len(RowsOf(incomeLogs, purResp.purchaseId))
        /\ purResp.logsCreated = Len(RowsOf(incomes, purResp.purchaseId))

\* a committed purchase under the decaying rule with six log rows whose
\* amounts differ from level to level and add up to the Income total
C12_Witness ==
    /\ purResp.status = "201" /\ purResp.logsCreated = 6
    /\ Rule.decayEnabled
    /\ LET logs == RowsOf(incomeLogs, purResp.purchaseId)
       IN /\ Len(logs) = 6
          /\ logs[1].incomeAmount = 2 * logs[2].incomeAmount
          /\ totalIncomeDistributed(logs)
                = SumAmounts(RowsOf(incomes, purResp.purchaseId))
          /\ totalIncomeDistributed(logs) > 0

\* ------------------------------------------------ placement retry claims
\* the step of p answers a (parent, position) uniqueness violation
ConflictSurfaced(p) ==
    /\ reg[p].pc = "create" /\ reg'[p] # reg[p]
    /\ reg[p].sponsor # 0
    /\ ~IndexAccepts(users, 0, reg[p].parentId, reg[p].position)
    /\ regResp'.status = "dup"

\* C13: a member creation that fails with a (parent, position) uniqueness
\* violation is followed by another placement search; the conflict does not
\* reach the caller from the request's first attempt.
C13_ConflictRetried ==
    [][\A p \in Procs : ConflictSurfaced(p) => reg'[p].pc = "search"]_vars

\* ------------------------------------------- placement termination claims
Searching(p) == reg[p].pc \in {"search", "bfLeft", "bfRight"}

\* a step of the search over a well-formed tree that ends the search: it
\* ends with a slot of the sponsor's subtree that no member holds
SearchReturnsOpenSlot ==
    \A p \in Procs :
        (WellFormed /\ reg[p].pc = "search" /\ reg'[p].pc = "create") =>
            /\ HeapIdx(reg[p].sponsor, reg'[p].parentId) # 0
            /\ reg'[p].position \in Positions
            /\ ~SlotTaken(reg'[p].parentId, reg'[p].position)

\* a search over a well-formed tree is not given up below the safety cap
SearchFailsOnlyAtCap ==
    \A p \in Procs :
        (WellFormed /\ reg[p].pc = "search" /\ reg'[p].pc = "idle") =>
            /\ reg[p].queue # <<>>
            /\ Cardinality(reg[p].visited \cup {Head(reg[p].queue)}) > MAX_VISITS

\* C14: on a well-formed tree findBinaryPlacement ends, with a slot in the
\* sponsor's subtree that is unoccupied when the search reads it; it fails
\* only when the visited nodes exceed MAX_VISITS.
C14_SearchTerminates ==
    /\ [][SearchReturnsOpenSlot /\ SearchFailsOnlyAtCap]_vars
    /\ \A p \in Procs : (Searching(p) /\ WellFormed) ~> ~Searching(p)

\* a search over a well-formed tree passed the sponsor and one of its
\* children and ended with a free slot two levels below the sponsor
C14_Witness ==
    \E p \in Procs :
        /\ WellFormed /\ reg[p].pc = "create" /\ reg[p].sponsor # 0
        /\ Cardinality(reg[p].visited) >= 2
        /\ HeapIdx(reg[p].sponsor, reg[p].parentId) \in {2, 3}
        /\ ~SlotTaken(reg[p].parentId, reg[p].position)

\* ------------------------------------------------- member frame claims
\* some search is at a backfill update
Backfilling == \E p \in Procs : reg[p].pc \in {"bfLeft", "bfRight"}

\* what a step may do to the members that exist
MembersKept ==
    /\ Len(users') >= Len(users)
    /\ \A i \in UserIds :
        /\ users'[i].parent = users[i].parent
        /\ users'[i].role = users[i].role
        /\ users'[i].position # users[i].position =>
            /\ users[i].position = "null"
            /\ users'[i].position \in Positions
            /\ users[i].parent # 0
            /\ Backfilling

\* C15: no step changes the parent of a member, and the only change of a
\* position is the backfill of a legacy child from null to left or right;
\* a position that is set stays as it is.
C15_PlacementImmutable == [][MembersKept]_vars

\* three legacy children of one parent: the first two were backfilled to
\* left and right, the third keeps its null position
C15_Witness ==
    \E a, b, c \in UserIds :
        /\ a < b /\ b < c
        /\ users[a].parent # 0
        /\ users[b].parent = users[a].parent
        /\ users[c].parent = users[a].parent
        /\ users[a].position = "left"
        /\ users[b].position = "right"
        /\ users[c].position = "null"

\* the member a step creates is a root without position or a child with
\* one of the two positions; a registration with a referral code creates a
\* child, one without and the admin setup create a root
CreatedWellShaped ==
    Len(users') > Len(users) =>
        LET u == users'[Len(users')] IN
        /\ Len(users') = Len(users) + 1
        /\ (u.parent = 0) = (u.position = "null")
        /\ u.parent # 0 => u.position \in Positions
        /\ \E p \in Procs :
            /\ reg[p].pc \in {"create", "setup"} /\ reg'[p].pc = "idle"
            /\ (u.parent # 0) = (reg[p].sponsor # 0)
            /\ (reg[p].pc = "setup") = (u.role = "admin")

\* the creation of a root is never rejected for its (parent, position)
RootsCoexist ==
    \A p \in Procs :
        (reg[p].pc \in {"create", "setup"} /\ reg[p].sponsor = 0
            /\ reg'[p].pc = "idle")
        => regResp'.status # "dup"

\* C16: every member that registration or admin setup creates has
\* parent = null exactly when position = null, a referred member gets a
\* parent and one of left/right, and roots are created beside roots.
C16_ParentIffPosition == [][CreatedWellShaped /\ RootsCoexist]_vars

\* a registered root and the admin stand beside the first root, and a
\* referred member holds a slot
C16_Witness ==
    /\ Cardinality({i \in UserIds : users[i].parent = 0
                                    /\ users[i].position = "null"}) >= 3
    /\ \E i \in UserIds : users[i].role = "admin"
    /\ \E i \in UserIds : users[i].parent # 0 /\ users[i].position \in Positions
    /\ regResp.status = "201"

\* ------------------------------------------------------- history claims
\* C17: no step of a purchase or of a rule update or removal removes or
\* changes an Income row that was committed: the rows of the pre-state are
\* the first rows of the post-state, field by field.
C17_IncomeAppendOnly ==
    [][/\ Len(incomes') >= Len(incomes)
       /\ SubSeq(incomes', 1, Len(incomes)) = incomes]_vars

\* rows paid at 10 % under a decaying rule are still there after that rule
\* was deleted
C17_Witness ==
    /\ incomes # <<>>
    /\ \E i \in usedRules : rules[i].deleted
    /\ admResp = [op |-> "delete", status |-> "200"]
    /\ \E k \in 1..Len(incomes) :
        incomes[k].level = 2 /\ 2 * incomes[k].percentage = PctDen \div 10

\* C18: a rule that a committed distribution used keeps its basePercentage
\* and its decayEnabled and is not removed by any later step.
C18_UsedRuleImmutable ==
    [][\A i \in usedRules :
        /\ ~rules'[i].deleted
        /\ rules'[i].basePercentage = rules[i].basePercentage
        /\ rules'[i].decayEnabled = rules[i].decayEnabled]_vars

\* ------------------------------------------------- rule lifecycle claims
\* a superseded rule is not active after the step
StaysSuperseded ==
    \A i \in LiveRuleIds(rules) :
        i \in superseded => i \notin ActiveRuleIds(rules')

\* a rule that stops being active has been superseded by the step
LeavesBySupersession ==
    \A i \in ActiveRuleIds(rules) :
        i \notin ActiveRuleIds(rules') => i \in superseded'

\* C19: a rule moves only from Draft-created to Active to Superseded: a rule
\* deactivated by the activation of another rule is never active again, and
\* an active rule stops being active only by being superseded.
C19_RuleLifecycle == [][StaysSuperseded /\ LeavesBySupersession]_vars

\* ------------------------------------------------------- fill claims
SubtreeOf(s) == {i \in UserIds : HeapIdx(s, i) # 0}

\* the subtree of s occupies the first slots of the level order, and its
\* members took them in the order of their creation
FilledInLevelOrder(s) ==
    /\ {HeapIdx(s, i) : i \in SubtreeOf(s)} = 1..Cardinality(SubtreeOf(s))
    /\ \A i, j \in SubtreeOf(s) : i < j => HeapIdx(s, i) < HeapIdx(s, j)

\* C20: sequential registrations with the referral code of a sponsor that
\* had no descendants fill its subtree in level order, left to right: the
\* k-th member registered holds the k-th slot of the breadth-first numbering
\* and the subtree is a complete binary tree after every registration.
C20_LevelOrderFill ==
    \A s \in UserIds : users[s].parent = 0 => FilledInLevelOrder(s)

\* four registrations under one sponsor: left, right, then the left and the
\* right slot of the left child
C20_Witness ==
    /\ Len(users) = 5
    /\ SubtreeOf(1) = 1..5
    /\ [i \in 2..5 |-> <<users[i].parent, users[i].position>>]
        = [i \in 2..5 |-> <<i \div 2, IF i % 2 = 0 THEN "left" ELSE "right">>]
    /\ regResp = RegAnswer("201", 2, "right")

\* ------------------------------------------------- legacy backfill claims
\* a step that gives a member a position gives it to the earliest-created
\* child of its parent without position: left when no child of the parent
\* holds left, right otherwise, and the slot it gets was free
BackfillInOrder ==
    \A i \in UserIds :
        users'[i].position # users[i].position =>
            LET parent == users[i].parent
                nulls == {j \in UserIds : /\ users[j].parent = parent
                                          /\ users[j].position = "null"}
            IN /\ i \in nulls
               /\ \A j \in nulls : i <= j
               /\ users'[i].position =
                    (IF SlotTaken(parent, "left") THEN "right" ELSE "left")
               /\ ~SlotTaken(parent, users'[i].position)

\* the children of a parent that hold a position are at most two
AtMostTwoPositioned ==
    \A parent \in UserIds :
        Cardinality({i \in UserIds : /\ users[i].parent = parent
                                     /\ users[i].position \in Positions}) <= 2

\* a search that is done with a full node and goes on has appended the left
\* child, the right child and then the children left without position, in
\* the order of their creation
LeftoverEnqueued ==
    \A p \in Procs :
        (/\ Searching(p)
         /\ reg'[p].pc = "search"
         /\ reg[p].pc = "search" => reg'[p].visited # reg[p].visited)
        => LET parent == reg'[p].cur
               before == IF reg[p].pc = "search"
                         THEN Tail(reg[p].queue) ELSE reg[p].queue
               held(pos) == {i \in 1..Len(users') :
                                /\ users'[i].parent = parent
                                /\ users'[i].position = pos}
               one(pos) == IF held(pos) = {} THEN <<>>
                           ELSE <<CHOOSE i \in held(pos) : TRUE>>
               leftover == SelectSeq([i \in 1..Len(users') |-> i],
                               LAMBDA i : /\ users'[i].parent = parent
                                          /\ users'[i].position = "null")
           IN reg'[p].queue = before \o one("left") \o one("right") \o leftover

\* C21: a search at a parent with legacy children gives left to the
\* earliest-created child without position when no child holds left, then
\* right to the next when no child holds right, and no position to a third;
\* the children left without position keep null and are enqueued after the
\* left and the right child, in creation order.
C21_LegacyBackfillOrder ==
    /\ [](AtMostTwoPositioned)
    /\ [][BackfillInOrder /\ LeftoverEnqueued]_vars

\* three legacy children of member 1: a search backfilled the first to left
\* and the second to right and goes on with them and the third, which has
\* no position
C21_Witness ==
    \E p \in Procs :
        /\ Len(users) >= 4
        /\ \A i \in 2..4 : users[i].parent = 1
        /\ users[2].position = "left"
        /\ users[3].position = "right"
        /\ users[4].position = "null"
        /\ reg[p].pc = "search" /\ reg[p].cur = 1
        /\ reg[p].queue = <<2, 3, 4>>

\* no legacy child was the target of two backfill updates that matched
WrittenOnce ==
    \A j, k \in 1..Len(backfills) :
        backfills[j].target = backfills[k].target => j = k

\* the children of one parent that hold a position hold different ones
SiblingsApart ==
    \A i, j \in UserIds :
        (/\ i # j
         /\ users[i].parent # 0
         /\ users[i].parent = users[j].parent
         /\ users[i].position \in Positions)
        => users[i].position # users[j].position

\* a backfill update changes a document only when its position is null: the
\* update of a search whose target got a position in the meantime changes
\* nothing, and a position that is set is not written again
GuardedWrite ==
    /\ \A i \in UserIds :
        users[i].position # "null" => users'[i].position = users[i].position
    /\ \A p \in Procs :
        (/\ reg[p].pc \in {"bfLeft", "bfRight"}
         /\ reg'[p] # reg[p]
         /\ users[Head(reg[p].unpositioned)].position # "null")
        => users' = users /\ backfills' = backfills

\* C22: when two searches backfill the children of one parent concurrently
\* no legacy child has its position written twice and no two children of
\* the parent end with the same position; a backfill write takes effect
\* only while the position of the child is null.
C22_BackfillRace ==
    /\ [](WrittenOnce /\ SiblingsApart)
    /\ [][GuardedWrite]_vars

\* two searches read the two legacy children of member 1 before either
\* wrote; both went through the left and the right backfill and go on with
\* the same two children, each of which was written once
C22_Witness ==
    \E p, q \in Procs :
        /\ p # q
        /\ Len(users) = 3
        /\ users[2] = NewUser(1, "left", "user")
        /\ users[3] = NewUser(1, "right", "user")
        /\ Len(backfills) = 2
        /\ \A r \in {p, q} :
            /\ reg[r].pc = "search" /\ reg[r].cur = 1
            /\ reg[r].leftChildId = 2 /\ reg[r].rightChildId = 3
            /\ reg[r].queue = <<2, 3>>

\* ------------------------------------------------- malformed graph claims
\* the search of p went round a cycle: it processed the parent of its sponsor
MetCycle(p) ==
    /\ reg[p].sponsor # 0
    /\ users[reg[p].sponsor].parent \in reg[p].visited

\* a step of the loop that does more than drop the head of the queue
\* processes the head, and the head was not processed before
ProcessedOnce ==
    \A p \in Procs :
        (/\ reg[p].pc = "search"
         /\ reg[p].queue # <<>>
         /\ reg'[p] # reg[p]
         /\ reg'[p] # [reg[p] EXCEPT !.queue = Tail(reg[p].queue)])
        => /\ Head(reg[p].queue) \notin reg[p].visited
           /\ reg'[p].pc # "idle" =>
                reg'[p].visited = reg[p].visited \cup {Head(reg[p].queue)}

\* a node met again is dropped from the queue and nothing else changes
RevisitSkipped ==
    \A p \in Procs :
        (/\ reg[p].pc = "search"
         /\ reg[p].queue # <<>>
         /\ reg'[p] # reg[p]
         /\ Head(reg[p].queue) \in reg[p].visited)
        => /\ reg'[p] = [reg[p] EXCEPT !.queue = Tail(reg[p].queue)]
           /\ users' = users

\* a search is given up only above the safety cap
GivenUpOnlyAtCap ==
    \A p \in Procs :
        (Searching(p) /\ reg'[p].pc = "idle") =>
            /\ reg[p].pc = "search"
            /\ reg[p].queue # <<>>
            /\ Cardinality(reg[p].visited \cup {Head(reg[p].queue)}) > MAX_VISITS

\* C23 as stated: each node is processed at most once and a search over a
\* malformed graph ends with a failure after finitely many steps.
C23_MalformedSearchFails ==
    [][/\ ProcessedOnce
       /\ \A p \in Procs :
            (Searching(p) /\ MetCycle(p) /\ ~Searching(p)') =>
                reg'[p].pc = "idle" /\ regResp'.status = "400"]_vars

\* C23 amended: within one search each node is processed at most once, also
\* when the parent references form a cycle; over such a graph the search
\* ends after finitely many steps, with a free slot, and is given up only
\* when more than MAX_VISITS nodes were visited.
C23_CycleSafeSearch ==
    /\ [][ProcessedOnce /\ RevisitSkipped /\ GivenUpOnlyAtCap]_vars
    /\ \A p \in Procs : Searching(p) ~> ~Searching(p)

\* a search went round a cycle, met its sponsor again and ended at another
\* node with a free slot
C23_Witness ==
    \E p \in Procs :
        /\ reg[p].pc = "create"
        /\ MetCycle(p)
        /\ Cardinality(reg[p].visited) >= 2
        /\ reg[p].parentId # reg[p].sponsor
        /\ ~SlotTaken(reg[p].parentId, reg[p].position)

\* ------------------------------------------------- rule update error claims
\* request a is an activating PUT that names no rule of the store: it
\* starts with this step or awaits its findByIdAndUpdate
ActivatesMissing(a) ==
    \/ /\ adm[a].pc = "idle" /\ adm'[a].pc = "put"
       /\ adm'[a].body.isActive = "true"
       /\ adm'[a].id \notin LiveRuleIds(rules)
    \/ /\ adm[a].pc = "put" /\ adm'[a].pc = "idle"
       /\ adm[a].body.isActive = "true"
       /\ adm[a].id \notin LiveRuleIds(rules)

\* C24: a rule update with isActive = true that names a rule id which does
\* not exist answers 404 and leaves the rule store unchanged: no step of the
\* request changes a rule, so the rule that was active stays active.
C24_MissingIdLeavesStore ==
    [][\A a \in Admins :
        ActivatesMissing(a) =>
            /\ rules' = rules
            /\ adm'[a].pc = "idle" => admResp' = [op |-> "put", status |-> "404"]]_vars

\* ------------------------------------------------------ admin setup claims
AdminIds == {i \in UserIds : users[i].role = "admin"}

\* a step that creates an admin finds no admin in the store
FirstAdminOnly ==
    (Len(users') > Len(users) /\ users'[Len(users')].role = "admin")
        => AdminIds = {}

\* C25: after any sequence or interleaving of admin setup requests with the
\* correct secret at most one user with role admin exists: once an admin
\* exists no setup request creates a user.
C25_SingleAdmin ==
    /\ [](Cardinality(AdminIds) <= 1)
    /\ [][FirstAdminOnly]_vars

\* ------------------------------------------------------ admin gate claims
\* the latest request went to a path under /api/admin/ other than the setup
\* path
GatedRequest ==
    /\ StartsWith(edgeResp.path, <<"api", "admin">>)
    /\ edgeResp.path # <<"api", "admin", "setup">>

\* the latest request carried a token that verifies and has the role admin
ValidAdminToken ==
    /\ edgeResp.token.present /\ edgeResp.token.signed
    /\ edgeResp.secretSet
    /\ edgeResp.token.role = "admin"

\* the latest request was counted beyond the limit of its key
OverEdgeLimit ==
    edgeLimit[EdgeKey(edgeResp.path, edgeResp.ip)].count > EdgeMax(edgeResp.path)

\* C26 as stated: a request to a path under /api/admin/ other than
\* /api/admin/setup without a valid admin token is answered 403 and not
\* passed on; /api/admin/setup is passed on without a token.
C26_AdminGate403 ==
    edgeResp.status # "none" =>
        /\ (GatedRequest /\ ~ValidAdminToken) => edgeResp.status = "403"
        /\ edgeResp.path = <<"api", "admin", "setup">> => edgeResp.status = "next"

\* C26 amended: such a request is never passed on: it is answered 403, or
\* 429 when the rate limit of its key is exceeded; /api/admin/setup is
\* passed on without a token unless the rate limit answers 429.
C26_AdminGate ==
    edgeResp.status # "none" =>
        /\ (edgeResp.status = "429") = OverEdgeLimit
        /\ (GatedRequest /\ ~ValidAdminToken /\ ~OverEdgeLimit)
            => edgeResp.status = "403"
        /\ (GatedRequest /\ ~ValidAdminToken) => edgeResp.status # "next"
        /\ (edgeResp.path = <<"api", "admin", "setup">> /\ ~OverEdgeLimit)
            => edgeResp.status = "next"

\* a request to /api/admin/rules with an admin token whose signature does
\* not verify was answered 403
C26_Witness ==
    /\ edgeResp.path = <<"api", "admin", "rules">>
    /\ edgeResp.token = [present |-> TRUE, signed |-> FALSE, role |-> "admin"]
    /\ edgeResp.secretSet
    /\ edgeResp.status = "403"

\* ------------------------------------------------------ rate limit claims
\* the max of the options that belong to a key
MaxOf(key) == (CHOOSE o \in RouteLimits : o.keyPrefix = key[1]).max

\* no key has more than max requests passed to its handler in its window
HandledWithinMax == \A k \in RouteKeys : handled[k] <= MaxOf(k)

\* what a request does to the entry of its key: at or after resetAt, or
\* without an entry, it opens a window with count 1 and reaches the handler;
\* inside the window it is counted, and once max requests were passed it is
\* answered 429 with a retry-after of at least one second that does not end
\* before the window does, and does not reach the handler
RequestCounted ==
    routeLimit' # routeLimit =>
        LET k == routeResp'.key
            old == routeLimit[k]
            new == routeLimit'[k]
        IN /\ \A j \in RouteKeys \ {k} :
                routeLimit'[j] = routeLimit[j] /\ handled'[j] = handled[j]
           /\ IF old.count = 0 \/ clock >= old.resetAt
              THEN /\ new = [count |-> 1, resetAt |-> clock + 60000]
                   /\ routeResp'.status = "handler"
                   /\ handled'[k] = 1
              ELSE /\ new = [old EXCEPT !.count = old.count + 1]
                   /\ IF handled[k] >= MaxOf(k)
                      THEN /\ routeResp'.status = "429"
                           /\ routeResp'.retryAfter >= 1
                           /\ routeResp'.retryAfter * 1000 >= old.resetAt - clock
                           /\ handled'[k] = handled[k]
                      ELSE /\ routeResp'.status = "handler"
                           /\ handled'[k] = handled[k] + 1

\* C27: for every rate-limit key (prefix and client IP) and every window at
\* most max requests reach the wrapped handler; each further request of the
\* window is answered 429 with a retry-after of at least 1 second and does
\* not reach the handler, and the first request at or after resetAt opens a
\* new window with count 1.
C27_RateLimitWindow ==
    /\ [](HandledWithinMax)
    /\ [][RequestCounted]_vars

\* the logins of one client were cut off at 20 and the 21st was answered 429;
\* the login of the other client opened a second window after the first
\* ended
C27_Witness ==
    /\ routeLimit[<<"auth:login", "10.0.0.1">>].count = 21
    /\ handled[<<"auth:login", "10.0.0.1">>] = 20
    /\ handled[<<"auth:login", "10.0.0.2">>] = 1
    /\ routeLimit[<<"auth:login", "10.0.0.2">>].resetAt > 60000
    /\ routeResp.key = <<"auth:login", "10.0.0.2">>
    /\ routeResp.status = "handler"

\* ------------------------------------------------------- service claims
\* C28: after every operation that creates or updates a service the stored
\* service satisfies bv = businessVolume and isActive = (status = active).
C28_LegacyFieldsInSync ==
    \A i \in 1..Len(services) :
        /\ services[i].bv = services[i].businessVolume
        /\ services[i].isActive =
            (IF services[i].status = "active" THEN "true" ELSE "false")

\* ---------------------------------------------------- referral tree claims
\* the latest request came from a user and named another member
ForeignTree ==
    /\ treeResp.ctx.role = "user"
    /\ treeResp.userId # 0
    /\ treeResp.userId # treeResp.ctx.userId

\* the latest request came from an admin, or from a user and named the user
OwnOrAdminTree ==
    /\ treeResp.userId # 0
    /\ \/ treeResp.ctx.role = "admin"
       \/ treeResp.ctx.role = "user" /\ treeResp.userId = treeResp.ctx.userId

\* C29 as stated: a tree request of a non-admin for a userId other than their
\* own is answered 403 and the tree is not built; an admin may request the
\* tree of any user and a user their own.
C29_ForeignTree403 ==
    treeResp.status # "none" =>
        /\ ForeignTree => treeResp.status = "403" /\ ~treeResp.built
        /\ OwnOrAdminTree => treeResp.status # "403"

\* C29 amended: such a request is answered 403, or 400 when its depth is not
\* an integer from 0 to 50, and the tree is not built; an admin may request
\* the tree of any user and a user their own: their request is never
\* answered 403 and the tree is built unless the query is invalid or
\* building it throws.
C29_ForeignTreeRefused ==
    treeResp.status # "none" =>
        /\ ForeignTree =>
            /\ ~treeResp.built
            /\ treeResp.status =
                (IF QueryParses(treeResp.userId, treeResp.depth)
                 THEN "403" ELSE "400")
        /\ OwnOrAdminTree =>
            /\ treeResp.status \in {"200", "400"}
            /\ treeResp.built = (treeResp.status = "200")
            /\ ~QueryParses(treeResp.userId, treeResp.depth)
                => treeResp.status = "400"

\* user 1 asked for the tree of member 2 with a valid depth and got 403
C29_Witness ==
    /\ treeResp.ctx = [role |-> "user", userId |-> 1]
    /\ treeResp.userId = 2
    /\ treeResp.depth = 50
    /\ treeResp.status = "403"
    /\ ~treeResp.built

\* ------------------------------------------------------ connection claims
\* the callers that were handed a connection
Served == {c \in Callers : dbCall[c].pc = "idle" /\ dbCall[c].got > 0}

\* C30: across concurrent and sequential calls of connectToDatabase whose
\* connection attempt succeeds mongoose.connect is started at most once and
\* every caller receives the same cached connection.
C30_ConnectOnce ==
    /\ Len(promises) <= 1
    /\ \A c \in Served : dbCall[c].got = cached.conn
    /\ \A c, d \in Served : dbCall[c].got = dbCall[d].got

\* the callers awaited the one connect together, all were handed its
\* connection, and a later call of one of them was served from the cache
C30_Witness ==
    /\ Len(promises) = 1
    /\ promises[1] = "resolved"
    /\ Served = Callers
    /\ \A c \in Callers : dbCall[c].promise = 1
    /\ \E c \in Callers : dbCall[c].calls = 2

====
